---------------------------- MODULE Spec2Model ----------------------------
(***************************************************************************)
(* A model of the nmq connection core: the RFC6455-like frame codec         *)
(* (nmqmessage.ToNmqBinaryFrame / ParseNmqFrame), the snowflake identifier  *)
(* generator (utils.SnowNode) and the connection server                     *)
(* (nmqmessage.MessageServer) with its connections registry.                *)
(*                                                                          *)
(* The specifications share the variables below:                            *)
(*   Spec       the MessageServer: Start, accept loop, read loops, Stop     *)
(*   SpecLive   Spec with the goroutine scheduler's weak fairness           *)
(*   SpecStop   Start, accept loops and Stop with no client, Close counted  *)
(*   SpecCodec  the frame codec applied to payloads and wire buffers        *)
(*   SpecSnow   NewSnowNode and concurrent callers of SnowNode.Generate     *)
(*   SpecWall   SpecSnow on a platform without a monotonic clock            *)
(*   SpecIds    the SnowID encodings and their parsers                      *)
(*   SpecFields the SnowID layout at its default widths and its decoders    *)
(*   SpecJson   SnowID.UnmarshalJSON on well-formed and malformed input     *)
(*   SpecCache  the local cache: concurrent Set, Get and Add, and the clock *)
(*   SpecPool   the bucketed slice pool: Get and Put                        *)
(*   SpecWs     ReadWebsocket on the frame streams of a peer                *)
(***************************************************************************)
EXTENDS Integers, Sequences, FiniteSets, TLC

VARIABLES
    \* ---- frame codec ----
    payload,      \* NmqMessage.Data handed to the encoder
    frame,        \* the wire buffer ([]byte) handed to ParseNmqFrame
    parsed,       \* what ParseNmqFrame did with the buffer
    src,          \* where the buffer came from: "none", "encoder", "wire", "cut"
    cpc,          \* position of the codec run: "new", "ready", "done"
    \* ---- SnowNode ----
    clock,        \* the latest reading of time.Since(n.epoch).Milliseconds()
    snNew,        \* the call of NewSnowNode: who makes it, its argument, how far it is
    snCfg,        \* what NewSnowNode returned: the generator's fixed fields, or an error
    snTime,       \* n.time
    snStep,       \* n.step
    snMu,         \* n.mu: 0 when free, else the caller holding it
    gPc,          \* per caller: position inside Generate
    gNow,         \* per caller: the local variable now
    lastId,       \* the identifier Generate returned last (-1: none yet)
    lastBy,       \* the caller it was returned to (0: none yet)
    issued,       \* every identifier returned so far (history)
    \* ---- SnowID encodings ----
    idIn,         \* the identifier handed to an encoder (an int64 word)
    idKind,       \* the encoding used: "none" before the encoder ran
    idText,       \* what the encoder returned
    idOut,        \* what the parser returned for idText
    \* ---- MessageServer ----
    starts,       \* number of Start calls made
    startErr,     \* what the latest Start returned: "none" (no call yet), "nil", "error"
    msListener,   \* ms.listener: 0 is nil, else the listener bound by Start k
    msCtx,        \* ms.msCtx / ms.msCancel: 0 is nil, else the context of Start k
    cancelled,    \* the contexts whose cancel function has been invoked
    lnState,      \* per listener: "none", "open", "closed"
    accPc,        \* per Start: its accept goroutine: "none", "call", "wait", "exited"
    accLn,        \* per Start: the listener its goroutine's pending Accept is on (0: none)
    connections,  \* ms.connections: SnowID -> net.Conn
    cnState,      \* per connection: "free", "open", "closed"
    cnCloses,     \* per connection: number of Close calls received
    cnId,         \* per connection: the SnowID minted at accept (-1: none)
    hPc,          \* per connection: handleConnection: "none", "deadline", "read", "done"
    panicked,     \* a goroutine panicked: the process is gone
    \* ---- the platform ----
    monotonic,    \* whether time.Now() carries a monotonic clock reading
    \* ---- SnowID fields ----
    fdNow,        \* the clock reading an identifier is composed from (int64 word)
    fdNode,       \* n.node of the generator (int64 word)
    fdStep,       \* n.step at the composition (int64 word)
    fdPc,         \* "idle", "compose" (Generate about to compose), "decode"
    fdId,         \* the identifier composed (<<>> before)
    fdTime,       \* what id.Time() returned (<<>> before the call)
    fdNodeOut,    \* what id.Node() returned
    fdStepOut,    \* what id.Step() returned
    \* ---- SnowID.UnmarshalJSON ----
    jsIn,         \* the bytes handed to UnmarshalJSON
    jsF0,         \* *f before the call (int64 word)
    jsF,          \* *f
    jsErr,        \* what UnmarshalJSON returned ("none" before the call)
    jsPc,         \* "idle", "call", "done"
    \* ---- net.Listener.Close calls ----
    lnCloses,     \* per listener: number of Close calls it received
    \* ---- localcache.cache ----
    member,       \* c.member: key -> Iterator
    cacheNow,     \* time.Now().UnixNano()
    gtPc,         \* per caller: "idle", or "delete" inside Get between RUnlock and Delete
    gtKey,        \* per caller: the key of its Get under way
    cacheRet,     \* per caller: what its latest call returned
    stored,       \* per key: the Iterator the latest Set stored, NoEntry after an Add on the key
    \* ---- pool.Pool ----
    poolSizes,    \* p.sizes
    buckets,      \* p.buckets: per bucket the capacities of the slices it holds
    poolRet,      \* the latest call: the size asked for and the capacity returned
    \* ---- ReadWebsocket ----
    wsFrames,     \* the frames the peer sent, in order, as it composed them
    wsIn,         \* conn.Reader: the bytes not yet read
    wsRead,       \* number of frames ReadWebsocket has consumed
    totalData,    \* totalData
    wsCalls,      \* the calls of handler made so far: opcode and data
    wsOut,        \* conn.Writer: the bytes written
    wsWrote,      \* what the Writer did with the latest frame written to it
    wsRet,        \* what ReadWebsocket returned ("none" while it runs)
    \* ---- cache lock and capture callback ----
    cacheMu,      \* the goroutine holding c.Lock(), 0 when the lock is free
    kvList,       \* per goroutine, the removed keys whose capture call is still to come
    capSet,       \* per goroutine, the c.set that follows the capture call inside Add or Replace
    reentrant,    \* whether the capture callback reads the cache (c.RLock)
    \* ---- rate limiters: ratelimit.mutexLimiter, atomicLimiter, atomicInt64Limiter ----
    lmArgs,       \* rate, per and slack the three limiters were built with
    lmClock,      \* the latest reading of clock.Now(), in nanoseconds
    mxSt,         \* mutexLimiter: last, sleepFor
    atSt,         \* atomicLimiter: the state record behind the pointer
    i64St,        \* atomicInt64Limiter.state
    mxTaken,      \* timestamps mutexLimiter.Take returned
    atTaken,      \* timestamps atomicLimiter.Take returned
    i64Taken,     \* timestamps atomicInt64Limiter.Take returned
    \* ---- runutil.Retry ----
    rtPc,         \* position of the Retry call
    rtErr,        \* err of the latest call of f
    rtRet,        \* what Retry returned
    rtCalls,      \* calls of f so far
    rtTicks,      \* ticks Retry received from tick.C
    tickC,        \* ticks buffered in tick.C (capacity 1)
    tickFired,    \* ticks the ticker has fired
    stopc,        \* whether stopc is closed
    \* ---- ReadWebsocket on one frame header ----
    rdIn,         \* the bytes the peer sent
    rdOut,        \* the error ReadWebsocket returned and the size of the buffer it made
    rdPc          \* position of the ReadWebsocket call

codecVars == <<payload, frame, parsed, src, cpc>>
snowVars  == <<clock, snNew, snCfg, snTime, snStep, snMu, gPc, gNow, lastId, lastBy, issued>>
idVars    == <<idIn, idKind, idText, idOut>>
srvVars   == <<starts, startErr, msListener, msCtx, cancelled, lnState, accPc, accLn,
               connections, cnState, cnCloses, cnId, hPc, panicked>>
platVars  == <<monotonic>>
fieldVars == <<fdNow, fdNode, fdStep, fdPc, fdId, fdTime, fdNodeOut, fdStepOut>>
jsonVars  == <<jsIn, jsF0, jsF, jsErr, jsPc>>
stopVars  == <<lnCloses>>
cacheVars == <<member, cacheNow, gtPc, gtKey, cacheRet, stored>>
poolVars  == <<poolSizes, buckets, poolRet>>
wsVars    == <<wsFrames, wsIn, wsRead, totalData, wsCalls, wsOut, wsWrote, wsRet>>
lockVars  == <<cacheMu, kvList, capSet, reentrant>>
limVars   == <<lmArgs, lmClock, mxSt, atSt, i64St, mxTaken, atTaken, i64Taken>>
retryVars == <<rtPc, rtErr, rtRet, rtCalls, rtTicks, tickC, tickFired, stopc>>
readVars  == <<rdIn, rdOut, rdPc>>
restVars  == <<platVars, fieldVars, jsonVars, stopVars, cacheVars, poolVars, wsVars, lockVars, limVars, retryVars, readVars>>
vars ==
    <<payload, frame, parsed, src, cpc,
      clock, snNew, snCfg, snTime, snStep, snMu, gPc, gNow, lastId, lastBy, issued,
      idIn, idKind, idText, idOut,
      starts, startErr, msListener, msCtx, cancelled, lnState, accPc, accLn,
      connections, cnState, cnCloses, cnId, hPc, panicked,
      monotonic,
      fdNow, fdNode, fdStep, fdPc, fdId, fdTime, fdNodeOut, fdStepOut,
      jsIn, jsF0, jsF, jsErr, jsPc,
      lnCloses,
      member, cacheNow, gtPc, gtKey, cacheRet, stored,
      poolSizes, buckets, poolRet,
      wsFrames, wsIn, wsRead, totalData, wsCalls, wsOut, wsWrote, wsRet,
      cacheMu, kvList, capSet, reentrant,
      lmArgs, lmClock, mxSt, atSt, i64St, mxTaken, atTaken, i64Taken,
      rtPc, rtErr, rtRet, rtCalls, rtTicks, tickC, tickFired, stopc,
      rdIn, rdOut, rdPc>>

-----------------------------------------------------------------------------
(* Bounds of the model *)

MaxCut == 17        \* a buffer is cut to at most this many leading bytes, or by one byte
MaxFill == 2        \* number of byte patterns the payloads are filled with
MaxClock == 2       \* clock readings range over 1..MaxClock
MaxStepBits == 2    \* StepBits values the package variable is set to: 1..MaxStepBits
MaxCallers == 2     \* goroutines calling Generate on one SnowNode
MaxStarts == 2      \* Start calls on one MessageServer
MaxConns == 2       \* connections the listener hands out
MaxCloses == 2      \* Close calls counted per listener
MaxNow == 3         \* time.Now().UnixNano() ranges over 1..MaxNow
MaxFrames == 3      \* frames the peer sends before it closes the connection
MaxRequest == 10    \* sizes asked of the pool and capacities put into it: 1..MaxRequest

-----------------------------------------------------------------------------
(* Machine arithmetic *)

RECURSIVE BitAnd(_, _)
BitAnd(x, y) ==
    IF x = 0 \/ y = 0 THEN 0
    ELSE (x % 2) * (y % 2) + 2 * BitAnd(x \div 2, y \div 2)

RECURSIVE BitOr(_, _)
BitOr(x, y) ==
    IF x = 0 THEN y
    ELSE IF y = 0 THEN x
    ELSE (IF x % 2 = 1 \/ y % 2 = 1 THEN 1 ELSE 0) + 2 * BitOr(x \div 2, y \div 2)

RECURSIVE BitXor(_, _)
BitXor(x, y) ==
    IF x = 0 THEN y
    ELSE IF y = 0 THEN x
    ELSE ((x + y) % 2) + 2 * BitXor(x \div 2, y \div 2)

RECURSIVE Shl(_, _)
Shl(x, k) == IF k = 0 THEN x ELSE Shl(2 * x, k - 1)

RECURSIVE Shr8(_, _)
Shr8(x, k) == IF k = 0 THEN x ELSE Shr8(x \div 256, k - 1)

\* A 64-bit word is its 8 bytes, most significant first; read as int64 it is
\* two's complement, so the sign is the top bit of the first byte.
Word64(n) == [i \in 1..8 |-> Shr8(n, 8 - i) % 256]

Neg64(a) == a[1] >= 128

RECURSIVE Add64From(_, _, _, _)
Add64From(a, b, i, c) ==
    IF i = 0 THEN <<>>
    ELSE LET s == a[i] + b[i] + c
         IN  Add64From(a, b, i - 1, s \div 256) \o <<s % 256>>

\* int64 addition, wrapping modulo 2^64
Add64(a, b) == Add64From(a, b, 8, 0)

RECURSIVE MulSum(_, _, _, _)
MulSum(a, b, p, i) ==
    IF i > p THEN 0 ELSE a[8 - i] * b[8 - (p - i)] + MulSum(a, b, p, i + 1)

\* uint64 multiplication, wrapping modulo 2^64: byte p of the product (from
\* the least significant) is the sum of column p and of what column p - 1
\* carries, modulo 256
Mul64(a, b) ==
    LET s0 == MulSum(a, b, 0, 0)
        s1 == MulSum(a, b, 1, 0) + s0 \div 256
        s2 == MulSum(a, b, 2, 0) + s1 \div 256
        s3 == MulSum(a, b, 3, 0) + s2 \div 256
        s4 == MulSum(a, b, 4, 0) + s3 \div 256
        s5 == MulSum(a, b, 5, 0) + s4 \div 256
        s6 == MulSum(a, b, 6, 0) + s5 \div 256
        s7 == MulSum(a, b, 7, 0) + s6 \div 256
    IN  <<s7 % 256, s6 % 256, s5 % 256, s4 % 256,
          s3 % 256, s2 % 256, s1 % 256, s0 % 256>>

ULt64(a, b) == \E i \in 1..8 : a[i] < b[i] /\ \A j \in 1..(i - 1) : a[j] = b[j]

\* a < b on int64
Lt64(a, b) == IF Neg64(a) # Neg64(b) THEN Neg64(a) ELSE ULt64(a, b)

\* the value of a word known to lie in 0 .. 2^31 - 1
Int64ToInt(a) == ((a[5] * 256 + a[6]) * 256 + a[7]) * 256 + a[8]

-----------------------------------------------------------------------------
(* Frame codec: nmqmessage.ToNmqBinaryFrame and nmqmessage.ParseNmqFrame *)

OpText == 1
OpBinary == 2

\* binary.BigEndian.PutUint16 / PutUint64 / Uint16
PutUint16(v) == <<(v \div 256) % 256, v % 256>>

PutUint64(v) == Word64(v)

Uint16(b) == b[1] * 256 + b[2]

\* LengthField with the 7-bit boundary off by one
LengthFieldOffByOne(n, maskBit) ==
    IF n <= 126 THEN <<BitOr(maskBit, n)>>
    ELSE IF n <= 65535 THEN <<BitOr(maskBit, 126)>> \o PutUint16(n % 65536)
    ELSE <<BitOr(maskBit, 127)>> \o PutUint64(n)

\* LengthField with the 16-bit length written least significant byte first
LengthFieldLittleEndian(n, maskBit) ==
    IF n < 126 THEN <<BitOr(maskBit, n)>>
    ELSE IF n <= 65535 THEN <<BitOr(maskBit, 126), n % 256, (n \div 256) % 256>>
    ELSE <<BitOr(maskBit, 127)>> \o PutUint64(n)

\* the length field of the encoder: byte 1 and the extended length bytes
LengthField(n, maskBit) ==
    IF n < 126 THEN <<BitOr(maskBit, n)>>
    ELSE IF n <= 65535 THEN <<BitOr(maskBit, 126)>> \o PutUint16(n % 65536)
    ELSE <<BitOr(maskBit, 127)>> \o PutUint64(n)

\* (msg *NmqMessage) ToNmqBinaryFrame() ([]byte, error)
ToNmqBinaryFrame(data) ==
    LET header0 == BitOr(128, OpBinary)
        maskBit == 0
    IN  [frame |-> <<header0>> \o LengthField(Len(data), maskBit) \o data,
         err   |-> "nil"]

\* What a call of ParseNmqFrame did: kind is "ok" (a message and a nil error),
\* "error" (nil and an error) or "panic" (a run-time panic, nothing returned);
\* buf is the caller's buffer afterwards.
NoResult == [kind |-> "none", err |-> "", data |-> <<>>, buf |-> <<>>]

ParseError(e, buf) == [kind |-> "error", err |-> e, data |-> <<>>, buf |-> buf]

ParsePanic(e, buf) == [kind |-> "panic", err |-> e, data |-> <<>>, buf |-> buf]

\* an unmask loop that uses the first key byte for every payload byte
UnmaskFirstKeyByte(bytes, maskKey) ==
    [i \in 1..Len(bytes) |-> BitXor(bytes[i], maskKey[1])]

\* for i := 0; i < len(payload); i++ { payload[i] ^= maskKey[i%4] }
Unmask(bytes, maskKey) ==
    [i \in 1..Len(bytes) |-> BitXor(bytes[i], maskKey[((i - 1) % 4) + 1])]

\* The tail of ParseNmqFrame from the length check on: payloadLength is an
\* int64 word, payloadStart an int.
ParsePayload(buf, mask, maskKey, payloadStart, payloadLength) ==
    LET end == Add64(Word64(payloadStart), payloadLength)
    IN  IF Lt64(Word64(Len(buf)), end)
        THEN ParseError("frame too short for payload", buf)
        \* frame[payloadStart : payloadStart+int(payloadLength)]
        ELSE IF Lt64(end, Word64(payloadStart))
        THEN ParsePanic("slice bounds out of range", buf)
        ELSE LET hi   == Int64ToInt(end)
                 raw  == SubSeq(buf, payloadStart + 1, hi)
                 data == IF mask THEN Unmask(raw, maskKey) ELSE raw
                 \* payload aliases the buffer: unmasking writes into it
                 out  == IF mask
                         THEN SubSeq(buf, 1, payloadStart) \o data
                                  \o SubSeq(buf, hi + 1, Len(buf))
                         ELSE buf
             IN  [kind |-> "ok", err |-> "nil", data |-> data, buf |-> out]

\* The mask-key step of ParseNmqFrame.
ParseMask(buf, mask, payloadStart, payloadLength) ==
    IF mask
    THEN IF Len(buf) < payloadStart + 4
         THEN ParseError("frame too short for mask key", buf)
         ELSE ParsePayload(buf, mask, SubSeq(buf, payloadStart + 1, payloadStart + 4),
                           payloadStart + 4, payloadLength)
    ELSE ParsePayload(buf, mask, <<0, 0, 0, 0>>, payloadStart, payloadLength)

\* an opcode test that rejects the control opcodes only
UnsupportedOpcodeControlOnly(opcode) == opcode >= 8

\* if opcode != OpText && opcode != OpBinary
UnsupportedOpcode(opcode) == opcode # OpText /\ opcode # OpBinary

\* ParseNmqFrame(frame []byte) (*NmqMessage, error)
ParseNmqFrame(buf) ==
    IF Len(buf) < 2 THEN ParseError("frame too short", buf)
    ELSE LET header        == buf[1]
             maskAndLength == buf[2]
             opcode        == BitAnd(header, 15)
             mask          == BitAnd(maskAndLength, 128) # 0
             len7          == BitAnd(maskAndLength, 127)
         IN  IF UnsupportedOpcode(opcode)
             THEN ParseError("unsupported opcode", buf)
             ELSE IF len7 = 126
             THEN IF Len(buf) < 4
                  THEN ParseError("frame too short for extended payload length", buf)
                  ELSE ParseMask(buf, mask, 4, Word64(Uint16(SubSeq(buf, 3, 4))))
             ELSE IF len7 = 127
             THEN IF Len(buf) < 10
                  THEN ParseError("frame too short for extended payload length", buf)
                  ELSE ParseMask(buf, mask, 10, SubSeq(buf, 3, 10))
             ELSE ParseMask(buf, mask, 2, Word64(len7))

-----------------------------------------------------------------------------
(* The codec driven over payloads and wire buffers *)

\* payload lengths around the three length encodings, and a large one
PayloadLens == {0, 1, 2, 125, 126, 127, 65535, 65536, 200000}

Fill(n, seed) == [i \in 1..n |-> (i * 7 + seed * 131) % 256]

Payloads == {Fill(n, seed) : n \in PayloadLens, seed \in 1..MaxFill}

\* buffers as a peer may send them: byte 0, byte 1, eight bytes that are an
\* extended length, a mask key or payload, and some more bytes
Byte0s == {130, 129, 128, 131, 136, 137, 138, 9}

Byte1s == {0, 1, 3, 126, 127, 128, 129, 131, 135, 254, 255}

Exts ==
    { <<0, 0, 0, 0, 0, 0, 0, 0>>,
      <<0, 0, 0, 0, 0, 0, 0, 2>>,
      <<0, 2, 17, 34, 51, 68, 9, 9>>,
      <<127, 255, 255, 255, 255, 255, 255, 255>>,
      <<127, 255, 255, 255, 255, 255, 255, 241>>,
      <<128, 0, 0, 0, 0, 0, 0, 0>>,
      <<255, 255, 255, 255, 255, 255, 255, 255>> }

Tails == { <<1, 2, 3, 4, 5, 6, 7>>, <<255, 0, 170, 85, 15, 240, 129>> }

WireFrames == {<<b0, b1>> \o e \o t : b0 \in Byte0s, b1 \in Byte1s, e \in Exts, t \in Tails}

CodecIdle ==
    /\ payload = <<>>
    /\ frame = <<>>
    /\ parsed = NoResult
    /\ src = "none"
    /\ cpc = "idle"

InitCodecRun ==
    /\ parsed = NoResult
    /\ \/ /\ payload \in Payloads
          /\ frame = <<>>
          /\ src = "none"
          /\ cpc = "new"
       \/ /\ payload = <<>>
          /\ frame \in WireFrames
          /\ src = "wire"
          /\ cpc = "ready"

\* the application encodes its payload
Encode ==
    /\ cpc = "new"
    /\ frame' = ToNmqBinaryFrame(payload).frame
    /\ src' = "encoder"
    /\ cpc' = "ready"
    /\ UNCHANGED <<payload, parsed>>

CutPoints(buf) == {k \in 0..(Len(buf) - 1) : k <= MaxCut \/ k = Len(buf) - 1}

\* only the first k bytes of the buffer arrive
Truncate ==
    /\ cpc = "ready"
    /\ src \in {"encoder", "wire"}
    /\ \E k \in CutPoints(frame) : frame' = SubSeq(frame, 1, k)
    /\ src' = "cut"
    /\ UNCHANGED <<payload, parsed, cpc>>

\* the buffer is handed to ParseNmqFrame
Parse ==
    /\ cpc = "ready"
    /\ parsed' = ParseNmqFrame(frame)
    /\ frame' = parsed'.buf
    /\ cpc' = "done"
    /\ UNCHANGED <<payload, src>>

NextCodec ==
    \/ Encode /\ UNCHANGED <<snowVars, idVars, srvVars, restVars>>
    \/ Truncate /\ UNCHANGED <<snowVars, idVars, srvVars, restVars>>
    \/ Parse /\ UNCHANGED <<snowVars, idVars, srvVars, restVars>>

-----------------------------------------------------------------------------
(* Identifier generator: utils.SnowNode *)

\* NodeBits is the package default. StepBits is a package variable too, read
\* by NewSnowNode; its default is 12 and the model constructs generators with
\* StepBits set to 1..MaxStepBits, so that the sequence wraps within the
\* clock readings explored.
NodeBits == 10

StepBitsChoices == 1..MaxStepBits

\* -1 ^ (-1 << bits)
LowMask(bits) == Shl(1, bits) - 1

\* a range test without the lower bound
NodeOutOfRangeUpperOnly(node, nodeMax) == Lt64(Word64(nodeMax), node)

\* if n.node < 0 || n.node > n.nodeMax, on the int64 word node
NodeOutOfRange(node, nodeMax) ==
    Lt64(node, Word64(0)) \/ Lt64(Word64(nodeMax), node)

\* NewSnowNode(node): the generator's fixed fields, or an error and no
\* generator; node is an int64 word
NewSnowNode(node, nodeBits, stepBits) ==
    LET nodeMax == LowMask(nodeBits)
    IN  IF NodeOutOfRange(node, nodeMax)
        THEN [err |-> "SnowNode number must be between 0 and nodeMax"]
        ELSE [err       |-> "nil",
              node      |-> Int64ToInt(node),
              nodeMax   |-> nodeMax,
              stepMask  |-> LowMask(stepBits),
              timeShift |-> nodeBits + stepBits,
              nodeShift |-> stepBits]

Callers == 1..MaxCallers

\* a Lock that excludes nobody
MutexFreeNoLock(mu) == TRUE

\* n.mu.Lock() succeeds only on a free mutex
MutexFree(mu) == mu = 0

\* a branch that also counts on when the clock reads less than n.time
StepAfterCountsOnRegression(now, time, step, stepMask) ==
    IF now <= time THEN BitAnd(step + 1, stepMask) ELSE 0

\* the branch of Generate on now == n.time: the new n.step
StepAfter(now, time, step, stepMask) ==
    IF now = time THEN BitAnd(step + 1, stepMask) ELSE 0

\* a Generate that returns at once when the sequence wraps
MustSpinNever(now, time, newStep) == FALSE

\* Generate enters the busy-wait when the sequence wrapped within now
MustSpin(now, time, newStep) == now = time /\ newStep = 0

\* a busy-wait that never waits
SpinAgainNoWait(now, time) == FALSE

\* for now <= n.time { now = time.Since(n.epoch).Milliseconds() }
SpinAgain(now, time) == now <= time

\* an identifier composed without the sequence
ComposeIDNoStep(now, cfg, step) ==
    BitOr(Shl(now, cfg.timeShift), Shl(cfg.node, cfg.nodeShift))

\* SnowID((now)<<n.timeShift | (n.node << n.nodeShift) | (n.step))
ComposeID(now, cfg, step) ==
    BitOr(BitOr(Shl(now, cfg.timeShift), Shl(cfg.node, cfg.nodeShift)), step)

\* hash/fnv New64: the 64-bit FNV-1 hash, offset 0xcbf29ce484222325 and
\* prime 0x100000001b3; each byte written multiplies the sum by the prime
\* and is then xor-ed into it
FnvOffset64 == <<203, 242, 156, 228, 132, 34, 35, 37>>

FnvPrime64 == <<0, 0, 1, 0, 0, 0, 1, 179>>

\* the sum after each byte written: for each byte, the sum is multiplied by
\* the prime and the byte is xor-ed into its low byte
RECURSIVE FnvSums(_, _)
FnvSums(h, bytes) ==
    IF bytes = <<>> THEN <<h>>
    ELSE LET sums == FnvSums(h, SubSeq(bytes, 1, Len(bytes) - 1))
         IN  Append(sums, [Mul64(sums[Len(sums)], FnvPrime64)
                             EXCEPT ![8] = BitXor(@, bytes[Len(bytes)])])

FnvWrite(h, bytes) == FnvSums(h, bytes)[Len(bytes) + 1]

\* h := fnv.New64(); h.Write([]byte(name)); int64(h.Sum64())
NodeOfName(name) == FnvWrite(FnvOffset64, name)

\* component names: "network", "nmq", "websocket"
ComponentNames ==
    { <<110, 101, 116, 119, 111, 114, 107>>,
      <<110, 109, 113>>,
      <<119, 101, 98, 115, 111, 99, 107, 101, 116>> }

\* node numbers handed to NewSnowNode directly: 0, 2^NodeBits - 1,
\* 2^NodeBits, -1, 2^32, the least and the greatest int64
NodeArgs ==
    { Word64(0), Word64(LowMask(NodeBits)), Word64(LowMask(NodeBits) + 1),
      Word64(-1),
      <<0, 0, 0, 1, 0, 0, 0, 0>>,
      <<128, 0, 0, 0, 0, 0, 0, 0>>,
      <<127, 255, 255, 255, 255, 255, 255, 255>> }

\* no generator: NewSnowNode has not returned yet
NoSnowNode == [err |-> "none"]

\* a call of NewSnowNode by the application, with StepBits set to sb
CallerNew(node, sb, pc) ==
    [by |-> "caller", name |-> <<>>, node |-> node, stepBits |-> sb, pc |-> pc]

\* NetComponent.Init about to build the component's generator
ComponentNew(name, sb) ==
    [by |-> "component", name |-> name, node |-> Word64(0), stepBits |-> sb, pc |-> "hash"]

NewCalls ==
    {CallerNew(node, sb, "call") : node \in NodeArgs, sb \in StepBitsChoices}
        \cup {ComponentNew(name, sb) : name \in ComponentNames, sb \in StepBitsChoices}

\* the generator the MessageServer works with: one that was built, with a
\* node number in range
ServerNew == CallerNew(Word64(LowMask(NodeBits)), 1, "done")

SnowState(calls) ==
    /\ clock = 1
    /\ snNew \in calls
    /\ snCfg = IF snNew.pc = "done"
               THEN NewSnowNode(snNew.node, NodeBits, snNew.stepBits)
               ELSE NoSnowNode
    /\ snTime = 0
    /\ snStep = 0
    /\ snMu = 0
    /\ gPc = [p \in Callers |-> "idle"]
    /\ gNow = [p \in Callers |-> 0]
    /\ lastId = -1
    /\ lastBy = 0
    /\ issued = {}

\* the platform's time.Now() carries a monotonic reading, which n.epoch keeps
\* (curTime.Add) and time.Since uses
MonotonicClock == monotonic = TRUE

\* no monotonic reading: time.Since(n.epoch) is a difference of wall clock times
WallClock == monotonic = FALSE

\* what time.Since(n.epoch).Milliseconds() can read next: with a monotonic
\* clock a reading is never below the one before it, a wall clock can be set back
Readings == IF monotonic THEN clock..MaxClock ELSE 1..MaxClock

\* NetComponent.Init: the node number is the hash of the component's name
NetComponentInit ==
    /\ snNew.pc = "hash"
    /\ snNew' = [snNew EXCEPT !.node = NodeOfName(snNew.name), !.pc = "call"]
    /\ UNCHANGED <<clock, snCfg, snTime, snStep, snMu, gPc, gNow, lastId, lastBy, issued>>

\* NewSnowNode(node) runs and returns; a generator starts with time 0, step 0
CallNewSnowNode ==
    /\ snNew.pc = "call"
    /\ snNew' = [snNew EXCEPT !.pc = "done"]
    /\ snCfg' = NewSnowNode(snNew.node, NodeBits, snNew.stepBits)
    /\ snTime' = 0
    /\ snStep' = 0
    /\ UNCHANGED <<clock, snMu, gPc, gNow, lastId, lastBy, issued>>

\* n.mu.Lock(), on a generator that NewSnowNode returned
GenLock(p) ==
    /\ snCfg.err = "nil"
    /\ gPc[p] = "idle"
    /\ MutexFree(snMu)
    /\ snMu' = p
    /\ gPc' = [gPc EXCEPT ![p] = "now"]
    /\ UNCHANGED <<clock, snNew, snCfg, snTime, snStep, gNow, lastId, lastBy, issued>>

\* now := time.Since(n.epoch).Milliseconds()
GenNow(p) ==
    /\ gPc[p] = "now"
    /\ \E now \in Readings :
          /\ clock' = now
          /\ gNow' = [gNow EXCEPT ![p] = now]
    /\ gPc' = [gPc EXCEPT ![p] = "branch"]
    /\ UNCHANGED <<snNew, snCfg, snTime, snStep, snMu, lastId, lastBy, issued>>

\* if now == n.time { n.step = (n.step + 1) & n.stepMask ... } else { n.step = 0 }
GenBranch(p) ==
    /\ gPc[p] = "branch"
    /\ snStep' = StepAfter(gNow[p], snTime, snStep, snCfg.stepMask)
    /\ gPc' = [gPc EXCEPT ![p] = IF MustSpin(gNow[p], snTime, snStep')
                                 THEN "spin" ELSE "store"]
    /\ UNCHANGED <<clock, snNew, snCfg, snTime, snMu, gNow, lastId, lastBy, issued>>

\* one turn of the busy-wait: test now <= n.time, read the clock again
GenSpin(p) ==
    /\ gPc[p] = "spin"
    /\ IF SpinAgain(gNow[p], snTime)
       THEN /\ \E now \in Readings :
                  /\ clock' = now
                  /\ gNow' = [gNow EXCEPT ![p] = now]
            /\ gPc' = gPc
       ELSE /\ gPc' = [gPc EXCEPT ![p] = "store"]
            /\ UNCHANGED <<clock, gNow>>
    /\ UNCHANGED <<snNew, snCfg, snTime, snStep, snMu, lastId, lastBy, issued>>

\* n.time = now; compose r; return r (the deferred Unlock runs)
GenStore(p) ==
    /\ gPc[p] = "store"
    /\ snTime' = gNow[p]
    /\ lastId' = ComposeID(gNow[p], snCfg, snStep)
    /\ lastBy' = p
    /\ issued' = issued \cup {lastId'}
    /\ snMu' = 0
    /\ gPc' = [gPc EXCEPT ![p] = "idle"]
    /\ gNow' = [gNow EXCEPT ![p] = 0]
    /\ UNCHANGED <<clock, snNew, snCfg, snStep>>

NextSnow ==
    \/ NetComponentInit /\ UNCHANGED <<codecVars, idVars, srvVars, restVars>>
    \/ CallNewSnowNode /\ UNCHANGED <<codecVars, idVars, srvVars, restVars>>
    \/ \E p \in Callers : GenLock(p) /\ UNCHANGED <<codecVars, idVars, srvVars, restVars>>
    \/ \E p \in Callers : GenNow(p) /\ UNCHANGED <<codecVars, idVars, srvVars, restVars>>
    \/ \E p \in Callers : GenBranch(p) /\ UNCHANGED <<codecVars, idVars, srvVars, restVars>>
    \/ \E p \in Callers : GenSpin(p) /\ UNCHANGED <<codecVars, idVars, srvVars, restVars>>
    \/ \E p \in Callers : GenStore(p) /\ UNCHANGED <<codecVars, idVars, srvVars, restVars>>

-----------------------------------------------------------------------------
(* Identifier encodings: utils.SnowID. A string is the sequence of its      *)
(* bytes; an identifier is an int64 word.                                    *)

\* w / d and w % d for a word w >= 0 and 0 < d < 2^15: long division, 16 bits
\* of w at a time
DivMod(w, d) ==
    LET n1 == w[1] * 256 + w[2]
        n2 == (n1 % d) * 65536 + w[3] * 256 + w[4]
        n3 == (n2 % d) * 65536 + w[5] * 256 + w[6]
        n4 == (n3 % d) * 65536 + w[7] * 256 + w[8]
    IN  [q |-> <<(n1 \div d) \div 256, (n1 \div d) % 256,
                 (n2 \div d) \div 256, (n2 \div d) % 256,
                 (n3 \div d) \div 256, (n3 \div d) % 256,
                 (n4 \div d) \div 256, (n4 \div d) % 256>>,
         r |-> n4 % d]

\* w * m + a for 0 <= m < 2^15 and 0 <= a < 2^16, 16 bits of w at a time: the
\* low 64 bits and what is carried out of them
MulAdd(w, m, a) ==
    LET p4 == (w[7] * 256 + w[8]) * m + a
        p3 == (w[5] * 256 + w[6]) * m + p4 \div 65536
        p2 == (w[3] * 256 + w[4]) * m + p3 \div 65536
        p1 == (w[1] * 256 + w[2]) * m + p2 \div 65536
    IN  [w |-> <<(p1 \div 256) % 256, p1 % 256, (p2 \div 256) % 256, p2 % 256,
                 (p3 \div 256) % 256, p3 % 256, (p4 \div 256) % 256, p4 % 256>>,
         carry |-> p1 \div 65536]

\* the value of a word known to lie in 0 .. 2^16 - 1
LowInt(w) == w[7] * 256 + w[8]

\* w < d for a word w >= 0 and a small d
BelowSmall(w, d) == (\A i \in 1..6 : w[i] = 0) /\ LowInt(w) < d

\* -w on int64
Negate64(w) == Add64([i \in 1..8 |-> 255 - w[i]], Word64(1))

\* strconv: the digits "0123456789abcdefghijklmnopqrstuvwxyz"
DigitChar(d) == IF d < 10 THEN 48 + d ELSE 97 + (d - 10)

\* strconv: the value of a digit byte, 255 when it is none
DigitValue(c) ==
    IF c >= 48 /\ c <= 57 THEN c - 48
    ELSE IF c >= 97 /\ c <= 122 THEN c - 97 + 10
    ELSE IF c >= 65 /\ c <= 90 THEN c - 65 + 10
    ELSE 255

\* strconv.FormatInt(i, base) for i >= 0
RECURSIVE FormatInt(_, _)
FormatInt(w, base) ==
    IF BelowSmall(w, base) THEN <<DigitChar(LowInt(w))>>
    ELSE FormatInt(DivMod(w, base).q, base) \o <<DigitChar(DivMod(w, base).r)>>

\* strconv.ParseInt(s, base, 64): the digits after the sign
RECURSIVE ParseDigits(_, _, _, _)
ParseDigits(s, base, i, acc) ==
    IF i > Len(s) THEN [err |-> "nil", id |-> acc]
    ELSE LET n == MulAdd(acc, base, DigitValue(s[i]))
         IN  CASE DigitValue(s[i]) >= base ->
                    [err |-> "invalid syntax", id |-> Word64(0)]
               [] DigitValue(s[i]) < base /\ (n.carry # 0 \/ Neg64(n.w)) ->
                    [err |-> "value out of range",
                     id  |-> <<127, 255, 255, 255, 255, 255, 255, 255>>]
               [] OTHER -> ParseDigits(s, base, i + 1, n.w)

\* strconv.ParseInt(s, base, 64) for base 10 and 36
ParseInt(s, base) ==
    LET signed == s # <<>> /\ s[1] \in {43, 45}
        digits == IF signed THEN Tail(s) ELSE s
    IN  IF digits = <<>> THEN [err |-> "invalid syntax", id |-> Word64(0)]
        ELSE LET r == ParseDigits(digits, base, 1, Word64(0))
             IN  IF r.err = "nil" /\ signed /\ s[1] = 45
                 THEN [err |-> "nil", id |-> Negate64(r.id)]
                 ELSE r

\* (f SnowID) String() / ParseString(id)
String(f) == FormatInt(f, 10)

ParseString(s) == ParseInt(s, 10)

\* (f SnowID) Base36() / ParseBase36(id)
Base36(f) == FormatInt(f, 36)

ParseBase36(s) == ParseInt(s, 36)

\* encodeBase32Map = "ybndrfg8ejkmcpqxot1uwisza345h769"
encodeBase32Map ==
    <<
       121, 98, 110, 100, 114, 102, 103, 56, 101, 106, 107, 109, 99, 112, 113, 120,
       111, 116, 49, 117, 119, 105, 115, 122, 97, 51, 52, 53, 104, 55, 54, 57 >>

\* encodeBase58Map = "123456789abcdefghijkmnopqrstuvwxyzABCDEFGHJKLMNPQRSTUVWXYZ"
encodeBase58Map ==
    <<
       49, 50, 51, 52, 53, 54, 55, 56, 57, 97, 98, 99, 100, 101, 102, 103,
       104, 105, 106, 107, 109, 110, 111, 112, 113, 114, 115, 116, 117, 118, 119, 120,
       121, 122, 65, 66, 67, 68, 69, 70, 71, 72, 74, 75, 76, 77, 78, 80,
       81, 82, 83, 84, 85, 86, 87, 88, 89, 90 >>

\* decodeBase32Map / decodeBase58Map as init() fills them: the index of the
\* byte in the encode map, 0xFF for a byte that is not in it
DecodeMap(encodeMap, c) ==
    IF \E i \in 1..Len(encodeMap) : encodeMap[i] = c
    THEN (CHOOSE i \in 1..Len(encodeMap) : encodeMap[i] = c) - 1
    ELSE 255

\* the digits without the final reversal: least significant first
RECURSIVE BaseNNotReversed(_, _)
BaseNNotReversed(f, encodeMap) ==
    IF BelowSmall(f, Len(encodeMap)) THEN <<encodeMap[LowInt(f) + 1]>>
    ELSE <<encodeMap[DivMod(f, Len(encodeMap)).r + 1]>>
         \o BaseNNotReversed(DivMod(f, Len(encodeMap)).q, encodeMap)

\* Base32 and Base58 for f >= 0: the digits of f in the base, most
\* significant first, each written with the encode map
RECURSIVE BaseN(_, _)
BaseN(f, encodeMap) ==
    IF BelowSmall(f, Len(encodeMap)) THEN <<encodeMap[LowInt(f) + 1]>>
    ELSE BaseN(DivMod(f, Len(encodeMap)).q, encodeMap)
         \o <<encodeMap[DivMod(f, Len(encodeMap)).r + 1]>>

\* ParseBase32 and ParseBase58 after the first n bytes of b: the loop returns at
\* the first byte outside the alphabet, else id = id*base + digit on int64
RECURSIVE ParseBaseN(_, _, _, _)
ParseBaseN(b, encodeMap, e, n) ==
    IF n = 0 THEN [err |-> "nil", id |-> Word64(0)]
    ELSE LET prev == ParseBaseN(b, encodeMap, e, n - 1)
             d    == DecodeMap(encodeMap, b[n])
         IN  IF prev.err # "nil" THEN prev
             ELSE IF d = 255 THEN [err |-> e, id |-> Word64(-1)]
             ELSE [err |-> "nil", id |-> MulAdd(prev.id, Len(encodeMap), d).w]

\* (f SnowID) Base32() / ParseBase32(b)
Base32(f) == BaseN(f, encodeBase32Map)

ParseBase32(b) == ParseBaseN(b, encodeBase32Map, "invalid base32", Len(b))

\* (f SnowID) Base58() / ParseBase58(b)
Base58(f) == BaseN(f, encodeBase58Map)

ParseBase58(b) == ParseBaseN(b, encodeBase58Map, "invalid base58", Len(b))

\* (f SnowID) Bytes() / ParseBytes(id)
Bytes(f) == String(f)

ParseBytes(b) == ParseInt(b, 10)

\* encoding/base64 StdEncoding: "A-Za-z0-9+/", padding '='
Base64Char(v) ==
    IF v < 26 THEN 65 + v
    ELSE IF v < 52 THEN 97 + (v - 26)
    ELSE IF v < 62 THEN 48 + (v - 52)
    ELSE IF v = 62 THEN 43 ELSE 47

Base64Value(c) ==
    IF c >= 65 /\ c <= 90 THEN c - 65
    ELSE IF c >= 97 /\ c <= 122 THEN c - 97 + 26
    ELSE IF c >= 48 /\ c <= 57 THEN c - 48 + 52
    ELSE IF c = 43 THEN 62
    ELSE IF c = 47 THEN 63
    ELSE 255

\* base64.StdEncoding.EncodeToString(b), from byte i on
RECURSIVE EncodeToString(_, _)
EncodeToString(b, i) ==
    LET left == Len(b) - i + 1
    IN  IF left <= 0 THEN <<>>
        ELSE IF left = 1
        THEN <<Base64Char(b[i] \div 4), Base64Char((b[i] % 4) * 16), 61, 61>>
        ELSE IF left = 2
        THEN <<Base64Char(b[i] \div 4),
               Base64Char((b[i] % 4) * 16 + b[i + 1] \div 16),
               Base64Char((b[i + 1] % 16) * 4), 61>>
        ELSE <<Base64Char(b[i] \div 4),
               Base64Char((b[i] % 4) * 16 + b[i + 1] \div 16),
               Base64Char((b[i + 1] % 16) * 4 + b[i + 2] \div 64),
               Base64Char(b[i + 2] % 64)>> \o EncodeToString(b, i + 3)

CorruptInput == [err |-> "illegal base64 data", bytes |-> <<>>]

\* base64.StdEncoding.DecodeString(s), from byte i on (a string without line
\* breaks): quanta of 4 bytes, padding in the last quantum only
RECURSIVE DecodeString(_, _)
DecodeString(s, i) ==
    IF i > Len(s) THEN [err |-> "nil", bytes |-> <<>>]
    ELSE IF Len(s) - i + 1 < 4 THEN CorruptInput
    ELSE LET v1   == Base64Value(s[i])
             v2   == Base64Value(s[i + 1])
             v3   == Base64Value(s[i + 2])
             v4   == Base64Value(s[i + 3])
             last == i + 3 = Len(s)
         IN  IF v1 = 255 \/ v2 = 255 THEN CorruptInput
             ELSE IF s[i + 2] = 61
             THEN IF s[i + 3] = 61 /\ last
                  THEN [err |-> "nil", bytes |-> <<v1 * 4 + v2 \div 16>>]
                  ELSE CorruptInput
             ELSE IF v3 = 255 THEN CorruptInput
             ELSE IF s[i + 3] = 61
             THEN IF last
                  THEN [err |-> "nil",
                        bytes |-> <<v1 * 4 + v2 \div 16, (v2 % 16) * 16 + v3 \div 4>>]
                  ELSE CorruptInput
             ELSE IF v4 = 255 THEN CorruptInput
             ELSE LET rest == DecodeString(s, i + 4)
                  IN  IF rest.err # "nil" THEN rest
                      ELSE [err |-> "nil",
                            bytes |-> <<v1 * 4 + v2 \div 16,
                                        (v2 % 16) * 16 + v3 \div 4,
                                        (v3 % 4) * 64 + v4>> \o rest.bytes]

\* (f SnowID) Base64() / ParseBase64(id)
Base64(f) == EncodeToString(Bytes(f), 1)

ParseBase64(s) ==
    LET d == DecodeString(s, 1)
    IN  IF d.err # "nil" THEN [err |-> d.err, id |-> Word64(-1)]
        ELSE ParseBytes(d.bytes)

\* uint64 v >> 8k, v << 8k and a | b
ShrBytes(w, k) == [i \in 1..8 |-> IF i <= k THEN 0 ELSE w[i - k]]

ShlBytes(w, k) == [i \in 1..8 |-> IF i + k <= 8 THEN w[i + k] ELSE 0]

Or64(a, b) == [i \in 1..8 |-> BitOr(a[i], b[i])]

\* binary.BigEndian.Uint64(b): uint64(b[7]) | uint64(b[6])<<8 | ... | uint64(b[0])<<56
RECURSIVE Uint64From(_, _)
Uint64From(b, i) ==
    IF i > 8 THEN Word64(0)
    ELSE Or64(ShlBytes(Word64(b[i]), 8 - i), Uint64From(b, i + 1))

\* (f SnowID) IntBytes(): b[0] = byte(v >> 56), ..., b[7] = byte(v)
IntBytes(f) == [i \in 1..8 |-> ShrBytes(f, 8 - i)[8]]

\* ParseIntBytes(id [8]byte)
ParseIntBytes(b) == [err |-> "nil", id |-> Uint64From(b, 1)]

\* the encodings SnowID exposes with a parser
Encodings == {"String", "Base32", "Base36", "Base58", "Base64", "IntBytes"}

EncodeAs(kind, f) ==
    CASE kind = "String"   -> String(f)
      [] kind = "Base32"   -> Base32(f)
      [] kind = "Base36"   -> Base36(f)
      [] kind = "Base58"   -> Base58(f)
      [] kind = "Base64"   -> Base64(f)
      [] kind = "IntBytes" -> IntBytes(f)

ParseAs(kind, text) ==
    CASE kind = "String"   -> ParseString(text)
      [] kind = "Base32"   -> ParseBase32(text)
      [] kind = "Base36"   -> ParseBase36(text)
      [] kind = "Base58"   -> ParseBase58(text)
      [] kind = "Base64"   -> ParseBase64(text)
      [] kind = "IntBytes" -> ParseIntBytes(text)

\* identifiers from 0 to 2^63 - 1: 0, 1, values around the bases 10, 32, 36
\* and 58, 2^NodeBits - 1, 2^31, 2^32 - 1, the identifier Generate returns
\* 504796127423 ms after the epoch on node 1023 with step 4095, and 2^63 - 1
IdInputs ==
    { Word64(0), Word64(1), Word64(9), Word64(10), Word64(31), Word64(32),
      Word64(35), Word64(36), Word64(57), Word64(58), Word64(1023),
      <<0, 0, 0, 0, 128, 0, 0, 0>>,
      <<0, 0, 0, 0, 255, 255, 255, 255>>,
      <<29, 98, 12, 104, 47, 255, 255, 255>>,
      <<127, 255, 255, 255, 255, 255, 255, 255>> }

NoId == [err |-> "none", id |-> Word64(0)]

IdIdle ==
    /\ idIn = Word64(0)
    /\ idKind = "idle"
    /\ idText = <<>>
    /\ idOut = NoId

InitIdRun ==
    /\ idIn \in IdInputs
    /\ idKind = "none"
    /\ idText = <<>>
    /\ idOut = NoId

\* one of the encoders is applied to the identifier
IdEncode(kind) ==
    /\ idKind = "none"
    /\ idKind' = kind
    /\ idText' = EncodeAs(kind, idIn)
    /\ UNCHANGED <<idIn, idOut>>

\* the parser of the encoding is applied to the encoder's result
IdParse ==
    /\ idKind \in Encodings
    /\ idOut = NoId
    /\ idOut' = ParseAs(idKind, idText)
    /\ UNCHANGED <<idIn, idKind, idText>>

NextIds ==
    \/ \E kind \in Encodings : IdEncode(kind) /\ UNCHANGED <<codecVars, snowVars, srvVars, restVars>>
    \/ IdParse /\ UNCHANGED <<codecVars, snowVars, srvVars, restVars>>

-----------------------------------------------------------------------------
(* Identifier layout: the composition in Generate and SnowID.Time, Node and *)
(* Step, on int64 words at the package's default widths.                    *)

StepBits == 12

\* Epoch = 1288834974657
Epoch == <<0, 0, 1, 44, 20, 141, 3, 193>>

And64(a, b) == [i \in 1..8 |-> BitAnd(a[i], b[i])]

\* ^x, and -1 ^ x
Not64(w) == [i \in 1..8 |-> 255 - w[i]]

\* w << k on int64, 0 <= k < 64: whole bytes, then the bits left over
Shl64(w, k) == MulAdd(ShlBytes(w, k \div 8), Shl(1, k % 8), 0).w

\* w >> k on uint64
Shr64(w, k) == DivMod(ShrBytes(w, k \div 8), Shl(1, k % 8)).q

\* w >> k on int64: the sign bit fills the top
Sar64(w, k) == IF Neg64(w) THEN Not64(Shr64(Not64(w), k)) ELSE Shr64(w, k)

\* the package-level nodeMax, nodeMask, stepMask, timeShift and nodeShift as
\* NewSnowNode recomputes them
PkgNodeMax == Not64(Shl64(Word64(-1), NodeBits))

PkgNodeMask == Shl64(PkgNodeMax, StepBits)

PkgStepMask == Not64(Shl64(Word64(-1), StepBits))

PkgTimeShift == NodeBits + StepBits

PkgNodeShift == StepBits

\* SnowID((now)<<n.timeShift | (n.node << n.nodeShift) | (n.step))
ComposeID64(now, node, step) ==
    Or64(Or64(Shl64(now, PkgTimeShift), Shl64(node, PkgNodeShift)), step)

\* (int64(f) >> timeShift) + Epoch
SnowIDTime(f) == Add64(Sar64(f, PkgTimeShift), Epoch)

\* a Node that masks with the shifted mask
SnowIDNodeMaskShifted(f) == And64(f, Shr64(PkgNodeMask, PkgNodeShift))

\* int64(f) & nodeMask >> nodeShift: & and >> bind alike, from the left
SnowIDNode(f) == Sar64(And64(f, PkgNodeMask), PkgNodeShift)

\* int64(f) & stepMask
SnowIDStep(f) == And64(f, PkgStepMask)

\* clock readings: 0, 1, 504796127423 (the year 2026), 2^41 - 1, and the
\* readings 2^41 and 2^42 - 1 of the year 2080 and later
FieldNows ==
    { Word64(0), Word64(1),
      <<0, 0, 0, 117, 136, 49, 160, 191>>,
      <<0, 0, 1, 255, 255, 255, 255, 255>>,
      <<0, 0, 2, 0, 0, 0, 0, 0>>,
      <<0, 0, 3, 255, 255, 255, 255, 255>> }

\* 2^41 = 1 << (63 - NodeBits - StepBits)
TimeLimit == Shl64(Word64(1), 63 - NodeBits - StepBits)

\* node numbers NewSnowNode accepts and values n.step takes
FieldNodes == {Word64(0), Word64(1), Word64(682), Word64(1023)}

FieldSteps == {Word64(0), Word64(1), Word64(2730), Word64(4095)}

\* no word yet
NoWord == <<>>

FieldsIdle ==
    /\ fdNow = Word64(0)
    /\ fdNode = Word64(0)
    /\ fdStep = Word64(0)
    /\ fdPc = "idle"
    /\ fdId = NoWord
    /\ fdTime = NoWord
    /\ fdNodeOut = NoWord
    /\ fdStepOut = NoWord

InitFieldsRun ==
    /\ fdNow \in FieldNows
    /\ fdNode \in FieldNodes
    /\ fdStep \in FieldSteps
    /\ fdPc = "compose"
    /\ fdId = NoWord
    /\ fdTime = NoWord
    /\ fdNodeOut = NoWord
    /\ fdStepOut = NoWord

\* the last statement of Generate
FieldsCompose ==
    /\ fdPc = "compose"
    /\ fdPc' = "decode"
    /\ fdId' = ComposeID64(fdNow, fdNode, fdStep)
    /\ UNCHANGED <<fdNow, fdNode, fdStep, fdTime, fdNodeOut, fdStepOut>>

\* id.Time()
FieldsTime ==
    /\ fdPc = "decode"
    /\ fdTime = NoWord
    /\ fdTime' = SnowIDTime(fdId)
    /\ UNCHANGED <<fdNow, fdNode, fdStep, fdPc, fdId, fdNodeOut, fdStepOut>>

\* id.Node()
FieldsNode ==
    /\ fdPc = "decode"
    /\ fdNodeOut = NoWord
    /\ fdNodeOut' = SnowIDNode(fdId)
    /\ UNCHANGED <<fdNow, fdNode, fdStep, fdPc, fdId, fdTime, fdStepOut>>

\* id.Step()
FieldsStep ==
    /\ fdPc = "decode"
    /\ fdStepOut = NoWord
    /\ fdStepOut' = SnowIDStep(fdId)
    /\ UNCHANGED <<fdNow, fdNode, fdStep, fdPc, fdId, fdTime, fdNodeOut>>

NextFields ==
    \/ FieldsCompose /\ UNCHANGED <<codecVars, snowVars, idVars, srvVars, platVars, jsonVars, stopVars, cacheVars, poolVars, wsVars, lockVars, limVars, retryVars, readVars>>
    \/ FieldsTime /\ UNCHANGED <<codecVars, snowVars, idVars, srvVars, platVars, jsonVars, stopVars, cacheVars, poolVars, wsVars, lockVars, limVars, retryVars, readVars>>
    \/ FieldsNode /\ UNCHANGED <<codecVars, snowVars, idVars, srvVars, platVars, jsonVars, stopVars, cacheVars, poolVars, wsVars, lockVars, limVars, retryVars, readVars>>
    \/ FieldsStep /\ UNCHANGED <<codecVars, snowVars, idVars, srvVars, platVars, jsonVars, stopVars, cacheVars, poolVars, wsVars, lockVars, limVars, retryVars, readVars>>

-----------------------------------------------------------------------------
(* SnowID.UnmarshalJSON *)

\* the byte '"'
QuoteByte == 34

\* len(b) < 3 || b[0] != '"' || b[len(b)-1] != '"'
NotQuoted(b) == Len(b) < 3 \/ b[1] # QuoteByte \/ b[Len(b)] # QuoteByte

\* UnmarshalJSON(b) called on an identifier f: the error returned and *f
\* after the call
UnmarshalJSON(f, b) ==
    IF NotQuoted(b) THEN [err |-> "nil", f |-> f]
    ELSE LET r == ParseInt(SubSeq(b, 2, Len(b) - 1), 10)
         IN  IF r.err # "nil" THEN [err |-> r.err, f |-> f]
             ELSE [err |-> "nil", f |-> r.id]

\* inputs: no bytes, one quote, an empty string, bare numbers, a number with
\* only one of its quotes, single quotes, quoted numbers, and quoted text
\* that strconv.ParseInt rejects
JsonInputs ==
    { <<>>, <<34>>, <<34, 34>>, <<49>>, <<49, 50>>, <<49, 50, 51>>,
      <<34, 49>>, <<34, 49, 50>>, <<49, 50, 34>>, <<39, 49, 39>>,
      <<110, 117, 108, 108>>,
      <<34, 49, 34>>, <<34, 52, 50, 34>>, <<34, 45, 53, 34>>,
      <<34, 120, 34>>, <<34, 34, 34>>,
      <<34, 57, 50, 50, 51, 51, 55, 50, 48, 51, 54, 56, 53, 52, 55, 55, 53,
        56, 48, 56, 34>> }

\* identifiers UnmarshalJSON is called on
JsonTargets ==
    {Word64(0), Word64(7), Word64(1023), <<29, 98, 12, 104, 47, 255, 255, 255>>}

JsonIdle ==
    /\ jsIn = <<>>
    /\ jsF0 = Word64(0)
    /\ jsF = Word64(0)
    /\ jsErr = "none"
    /\ jsPc = "idle"

InitJsonRun ==
    /\ jsIn \in JsonInputs
    /\ jsF0 \in JsonTargets
    /\ jsF = jsF0
    /\ jsErr = "none"
    /\ jsPc = "call"

\* f.UnmarshalJSON(b)
JsonUnmarshal ==
    /\ jsPc = "call"
    /\ jsPc' = "done"
    /\ jsErr' = UnmarshalJSON(jsF, jsIn).err
    /\ jsF' = UnmarshalJSON(jsF, jsIn).f
    /\ UNCHANGED <<jsIn, jsF0>>

NextJson ==
    \/ JsonUnmarshal /\ UNCHANGED <<codecVars, snowVars, idVars, srvVars, platVars, fieldVars, stopVars, cacheVars, poolVars, wsVars, lockVars, limVars, retryVars, readVars>>

-----------------------------------------------------------------------------
(* Local cache: localcache.cache *)

CacheCallers == {1, 2}

CacheKeys == {"a", "b"}

CacheVals == {"v1", "v2"}

\* the durations handed to Set and Add: 0 is no expiry
Durations == {0, 1}

NoEntry == [Val |-> "nil", Expire |-> -1]

\* Iterator.Expired(): an Expire of 0 never expires
Expired(it, now) == IF it.Expire = 0 THEN FALSE ELSE now > it.Expire

\* if d > 0 { expire = time.Now().Add(d).UnixNano() }; Iterator{Val: v, Expire: expire}
NewIterator(v, d, now) == [Val |-> v, Expire |-> IF d > 0 THEN now + d ELSE 0]

\* c.member[k] = it
MemberPut(m, k, it) == [x \in (DOMAIN m) \cup {k} |-> IF x = k THEN it ELSE m[x]]

\* delete(c.member, k)
MemberDelete(m, k) == [x \in (DOMAIN m) \ {k} |-> m[x]]

\* c.get(k), the lock-free lookup of Add and Replace: found or not, and the
\* map it leaves; every branch that finds the key runs c._delete(k)
InternalGet(m, k, now) ==
    IF k \notin DOMAIN m THEN [ok |-> FALSE, member |-> m]
    ELSE IF Expired(m[k], now) THEN [ok |-> FALSE, member |-> MemberDelete(m, k)]
    ELSE [ok |-> TRUE, member |-> MemberDelete(m, k)]

NoRet == [op |-> "none", key |-> "", val |-> "nil", ok |-> FALSE, err |-> "nil"]

CacheIdle ==
    /\ member = <<>>
    /\ cacheNow = 0
    /\ gtPc = [p \in CacheCallers |-> "off"]
    /\ gtKey = [p \in CacheCallers |-> ""]
    /\ cacheRet = [p \in CacheCallers |-> NoRet]
    /\ stored = [k \in CacheKeys |-> NoEntry]

\* NewCache(): an empty member map
InitCacheRun ==
    /\ member = <<>>
    /\ cacheNow = 1
    /\ gtPc = [p \in CacheCallers |-> "idle"]
    /\ gtKey = [p \in CacheCallers |-> ""]
    /\ cacheRet = [p \in CacheCallers |-> NoRet]
    /\ stored = [k \in CacheKeys |-> NoEntry]

\* the clock moves on
CacheTick ==
    /\ \A p \in CacheCallers : gtPc[p] # "off"
    /\ cacheNow < MaxNow
    /\ cacheNow' = cacheNow + 1
    /\ UNCHANGED <<member, gtPc, gtKey, cacheRet, stored>>

\* c.Set(k, v, d)
CacheSet(p, k, v, d) ==
    /\ gtPc[p] = "idle"
    /\ member' = MemberPut(member, k, NewIterator(v, d, cacheNow))
    /\ stored' = [stored EXCEPT ![k] = NewIterator(v, d, cacheNow)]
    /\ cacheRet' = [cacheRet EXCEPT ![p] =
                       [op |-> "Set", key |-> k, val |-> "nil", ok |-> TRUE, err |-> "nil"]]
    /\ UNCHANGED <<cacheNow, gtPc, gtKey>>

\* c.Get(k) up to its RUnlock: not found, found, or expired with the Delete
\* still to run
GetLookup(p, k) ==
    /\ gtPc[p] = "idle"
    /\ IF k \notin DOMAIN member
       THEN /\ cacheRet' = [cacheRet EXCEPT ![p] =
                              [op |-> "Get", key |-> k, val |-> "nil", ok |-> FALSE, err |-> "nil"]]
            /\ UNCHANGED <<gtPc, gtKey>>
       ELSE IF Expired(member[k], cacheNow)
       THEN /\ gtPc' = [gtPc EXCEPT ![p] = "delete"]
            /\ gtKey' = [gtKey EXCEPT ![p] = k]
            /\ UNCHANGED cacheRet
       ELSE /\ cacheRet' = [cacheRet EXCEPT ![p] =
                              [op |-> "Get", key |-> k, val |-> member[k].Val, ok |-> TRUE, err |-> "nil"]]
            /\ UNCHANGED <<gtPc, gtKey>>
    /\ UNCHANGED <<member, cacheNow, stored>>

\* the rest of c.Get(k) on an expired entry: c.Delete(k); return nil, false
GetDelete(p) ==
    /\ gtPc[p] = "delete"
    /\ member' = MemberDelete(member, gtKey[p])
    /\ gtPc' = [gtPc EXCEPT ![p] = "idle"]
    /\ gtKey' = [gtKey EXCEPT ![p] = ""]
    /\ cacheRet' = [cacheRet EXCEPT ![p] =
                       [op |-> "Get", key |-> gtKey[p], val |-> "nil", ok |-> FALSE, err |-> "nil"]]
    /\ UNCHANGED <<cacheNow, stored>>

\* c.Add(k, x, d), under c.Lock()
CacheAdd(p, k, x, d) ==
    /\ gtPc[p] = "idle"
    /\ LET g == InternalGet(member, k, cacheNow)
       IN  IF g.ok
           THEN /\ member' = g.member
                /\ cacheRet' = [cacheRet EXCEPT ![p] =
                                  [op |-> "Add", key |-> k, val |-> "nil", ok |-> FALSE, err |-> "CacheExist"]]
           ELSE /\ member' = MemberPut(g.member, k, NewIterator(x, d, cacheNow))
                /\ cacheRet' = [cacheRet EXCEPT ![p] =
                                  [op |-> "Add", key |-> k, val |-> "nil", ok |-> TRUE, err |-> "nil"]]
    /\ stored' = [stored EXCEPT ![k] = NoEntry]
    /\ UNCHANGED <<cacheNow, gtPc, gtKey>>

NextCache ==
    \/ CacheTick /\ UNCHANGED <<codecVars, snowVars, idVars, srvVars, platVars, fieldVars, jsonVars, stopVars, poolVars, wsVars, lockVars, limVars, retryVars, readVars>>
    \/ \E p \in CacheCallers, k \in CacheKeys, v \in CacheVals, d \in Durations :
          CacheSet(p, k, v, d) /\ UNCHANGED <<codecVars, snowVars, idVars, srvVars, platVars, fieldVars, jsonVars, stopVars, poolVars, wsVars, lockVars, limVars, retryVars, readVars>>
    \/ \E p \in CacheCallers, k \in CacheKeys :
          GetLookup(p, k) /\ UNCHANGED <<codecVars, snowVars, idVars, srvVars, platVars, fieldVars, jsonVars, stopVars, poolVars, wsVars, lockVars, limVars, retryVars, readVars>>
    \/ \E p \in CacheCallers :
          GetDelete(p) /\ UNCHANGED <<codecVars, snowVars, idVars, srvVars, platVars, fieldVars, jsonVars, stopVars, poolVars, wsVars, lockVars, limVars, retryVars, readVars>>
    \/ \E p \in CacheCallers, k \in CacheKeys, v \in CacheVals, d \in Durations :
          CacheAdd(p, k, v, d) /\ UNCHANGED <<codecVars, snowVars, idVars, srvVars, platVars, fieldVars, jsonVars, stopVars, poolVars, wsVars, lockVars, limVars, retryVars, readVars>>

-----------------------------------------------------------------------------
(* The cache at the granularity of its lock: every call of the capture
   callback is a step of its own, taken in the lock state the code calls it
   in. The cache is built by NewCache with the default configuration, whose
   capture is not nil. The values the calls return are not recorded. *)

NoSet == [key |-> "", val |-> "nil", d |-> 0]

LockIdle ==
    /\ cacheMu = 0
    /\ kvList = [p \in CacheCallers |-> {}]
    /\ capSet = [p \in CacheCallers |-> NoSet]
    /\ reentrant = FALSE

InitLockRun ==
    /\ cacheMu = 0
    /\ kvList = [p \in CacheCallers |-> {}]
    /\ capSet = [p \in CacheCallers |-> NoSet]
    /\ reentrant \in BOOLEAN

\* c.Lock() and c.RLock() return only while no goroutine holds the write lock
Unlocked == cacheMu = 0

LockTick == CacheTick /\ UNCHANGED lockVars

\* c.Set(k, v, d)
LockSet(p, k, v, d) ==
    /\ gtPc[p] = "idle"
    /\ Unlocked
    /\ member' = MemberPut(member, k, NewIterator(v, d, cacheNow))
    /\ UNCHANGED <<cacheNow, gtPc, gtKey, cacheRet, stored, lockVars>>

\* c.Get(k) up to its RUnlock: on an expired entry the Delete is still to run
LockGet(p, k) ==
    /\ gtPc[p] = "idle"
    /\ Unlocked
    /\ k \in DOMAIN member
    /\ Expired(member[k], cacheNow)
    /\ gtPc' = [gtPc EXCEPT ![p] = "delete"]
    /\ gtKey' = [gtKey EXCEPT ![p] = k]
    /\ UNCHANGED <<member, cacheNow, cacheRet, stored, lockVars>>

\* c.Delete(k) up to its capture call: c.Lock(); v, ok := c.delete(k); c.Unlock()
DeleteLocked(p, k) ==
    /\ Unlocked
    /\ member' = MemberDelete(member, k)
    /\ IF k \in DOMAIN member
       THEN /\ gtPc' = [gtPc EXCEPT ![p] = "capture"]
            /\ kvList' = [kvList EXCEPT ![p] = {k}]
       ELSE /\ gtPc' = [gtPc EXCEPT ![p] = "idle"]
            /\ UNCHANGED kvList
    /\ gtKey' = [gtKey EXCEPT ![p] = ""]
    /\ UNCHANGED <<cacheNow, cacheRet, stored, cacheMu, capSet, reentrant>>

\* c.Delete(k)
LockDelete(p, k) == gtPc[p] = "idle" /\ DeleteLocked(p, k)

\* the c.Delete(k) that ends c.Get(k) on an expired entry
LockGetDelete(p) == gtPc[p] = "delete" /\ DeleteLocked(p, gtKey[p])

\* c.DeleteExpire() up to its capture calls
LockDeleteExpire(p) ==
    /\ gtPc[p] = "idle"
    /\ Unlocked
    /\ LET gone == {k \in DOMAIN member : Expired(member[k], cacheNow)}
       IN  /\ member' = [k \in (DOMAIN member) \ gone |-> member[k]]
           /\ kvList' = [kvList EXCEPT ![p] = gone]
           /\ gtPc' = [gtPc EXCEPT ![p] = IF gone = {} THEN "idle" ELSE "capture"]
    /\ UNCHANGED <<cacheNow, gtKey, cacheRet, stored, cacheMu, capSet, reentrant>>

\* c.Add(k, x, d) and c.Replace(k, x, d) on a key that is present: c.Lock();
\* c.get(k) runs c._delete(k), which removes the entry and calls c.capture
LockedGet(p, k, next) ==
    /\ k \in DOMAIN member
    /\ member' = MemberDelete(member, k)
    /\ cacheMu' = p
    /\ gtPc' = [gtPc EXCEPT ![p] = "capture"]
    /\ kvList' = [kvList EXCEPT ![p] = {k}]
    /\ capSet' = [capSet EXCEPT ![p] = next]
    /\ UNCHANGED <<cacheNow, gtKey, cacheRet, stored, reentrant>>

\* c.Add(k, x, d)
LockAdd(p, k, x, d) ==
    /\ gtPc[p] = "idle"
    /\ Unlocked
    /\ IF k \notin DOMAIN member
       THEN /\ member' = MemberPut(member, k, NewIterator(x, d, cacheNow))
            /\ UNCHANGED <<cacheNow, gtPc, gtKey, cacheRet, stored, lockVars>>
       ELSE LockedGet(p, k, IF Expired(member[k], cacheNow)
                            THEN [key |-> k, val |-> x, d |-> d]
                            ELSE NoSet)

\* c.Replace(k, x, d)
LockReplace(p, k, x, d) ==
    /\ gtPc[p] = "idle"
    /\ Unlocked
    /\ LockedGet(p, k, IF Expired(member[k], cacheNow)
                       THEN NoSet
                       ELSE [key |-> k, val |-> x, d |-> d])

\* c.capture(k, v) is called and returns; after the last call Add and Replace
\* go on to c.set and c.Unlock(). A callback that reads the cache waits in
\* c.RLock() for as long as the write lock is held.
Capture(p) ==
    /\ gtPc[p] = "capture"
    /\ reentrant => Unlocked
    /\ \E k \in kvList[p] :
          /\ kvList' = [kvList EXCEPT ![p] = kvList[p] \ {k}]
          /\ IF kvList[p] = {k}
             THEN /\ gtPc' = [gtPc EXCEPT ![p] = "idle"]
                  /\ capSet' = [capSet EXCEPT ![p] = NoSet]
                  /\ cacheMu' = IF cacheMu = p THEN 0 ELSE cacheMu
                  /\ member' = IF capSet[p] = NoSet
                               THEN member
                               ELSE MemberPut(member, capSet[p].key,
                                              NewIterator(capSet[p].val, capSet[p].d, cacheNow))
             ELSE UNCHANGED <<gtPc, capSet, cacheMu, member>>
    /\ UNCHANGED <<cacheNow, gtKey, cacheRet, stored, reentrant>>

NextLock ==
    \/ LockTick /\ UNCHANGED <<codecVars, snowVars, idVars, srvVars, platVars, fieldVars, jsonVars, stopVars, poolVars, wsVars, limVars, retryVars, readVars>>
    \/ \E p \in CacheCallers, k \in CacheKeys, v \in CacheVals, d \in Durations :
          LockSet(p, k, v, d) /\ UNCHANGED <<codecVars, snowVars, idVars, srvVars, platVars, fieldVars, jsonVars, stopVars, poolVars, wsVars, limVars, retryVars, readVars>>
    \/ \E p \in CacheCallers, k \in CacheKeys :
          LockGet(p, k) /\ UNCHANGED <<codecVars, snowVars, idVars, srvVars, platVars, fieldVars, jsonVars, stopVars, poolVars, wsVars, limVars, retryVars, readVars>>
    \/ \E p \in CacheCallers :
          LockGetDelete(p) /\ UNCHANGED <<codecVars, snowVars, idVars, srvVars, platVars, fieldVars, jsonVars, stopVars, poolVars, wsVars, limVars, retryVars, readVars>>
    \/ \E p \in CacheCallers, k \in CacheKeys :
          LockDelete(p, k) /\ UNCHANGED <<codecVars, snowVars, idVars, srvVars, platVars, fieldVars, jsonVars, stopVars, poolVars, wsVars, limVars, retryVars, readVars>>
    \/ \E p \in CacheCallers :
          LockDeleteExpire(p) /\ UNCHANGED <<codecVars, snowVars, idVars, srvVars, platVars, fieldVars, jsonVars, stopVars, poolVars, wsVars, limVars, retryVars, readVars>>
    \/ \E p \in CacheCallers, k \in CacheKeys, v \in CacheVals, d \in Durations :
          LockAdd(p, k, v, d) /\ UNCHANGED <<codecVars, snowVars, idVars, srvVars, platVars, fieldVars, jsonVars, stopVars, poolVars, wsVars, limVars, retryVars, readVars>>
    \/ \E p \in CacheCallers, k \in CacheKeys, v \in CacheVals, d \in Durations :
          LockReplace(p, k, v, d) /\ UNCHANGED <<codecVars, snowVars, idVars, srvVars, platVars, fieldVars, jsonVars, stopVars, poolVars, wsVars, limVars, retryVars, readVars>>
    \/ \E p \in CacheCallers :
          Capture(p) /\ UNCHANGED <<codecVars, snowVars, idVars, srvVars, platVars, fieldVars, jsonVars, stopVars, poolVars, wsVars, limVars, retryVars, readVars>>

-----------------------------------------------------------------------------
(* Rate limiters: ratelimit.mutexLimiter, atomicLimiter, atomicInt64Limiter.
   One goroutine calls Take on a limiter of each kind, built with the same
   rate, per and slack and reading the same clock. Times are nanoseconds
   since the Unix epoch, as the running clock reads them: positive, never
   going back, and past the returned timestamp once Take has slept. *)

MaxTakes == 5

MaxLimiterClock == 12

\* time.Time{}: the zero time, which is no reading of the clock
ZeroTime == -1

\* rate, per and slack handed to the constructors
LimiterArgs == [rate : {2, 3, 6}, per : {6}, slack : {0, 1, 2}]

\* newMutexBased and newAtomicBased: perRequest and the negative maxSlack
newMutexBased(a) ==
    [perRequest |-> a.per \div a.rate,
     maxSlack   |-> (-1) * a.slack * (a.per \div a.rate)]

\* newAtomicInt64Based: perRequest and the positive maxSlack
newAtomicInt64Based(a) ==
    [perRequest |-> a.per \div a.rate,
     maxSlack   |-> a.slack * (a.per \div a.rate)]

\* state{last: time.Time{}, sleepFor: 0}
NoTake == [last |-> ZeroTime, sleepFor |-> 0]

\* a mutexLimiter.Take that never clamps sleepFor
mutexTakeUnclamped(t, st, now) ==
    IF st.last = ZeroTime
    THEN [last |-> now, sleepFor |-> st.sleepFor, ret |-> now]
    ELSE LET sleepFor == st.sleepFor + t.perRequest - (now - st.last)
         IN  IF sleepFor > 0
             THEN [last |-> now + sleepFor, sleepFor |-> 0, ret |-> now + sleepFor]
             ELSE [last |-> now, sleepFor |-> sleepFor, ret |-> now]

\* mutexLimiter.Take with the clock reading now: the fields it leaves and the
\* timestamp it returns
mutexTake(t, st, now) ==
    IF st.last = ZeroTime
    THEN [last |-> now, sleepFor |-> st.sleepFor, ret |-> now]
    ELSE LET added    == st.sleepFor + t.perRequest - (now - st.last)
             sleepFor == IF added < t.maxSlack THEN t.maxSlack ELSE added
         IN  IF sleepFor > 0
             THEN [last |-> now + sleepFor, sleepFor |-> 0, ret |-> now + sleepFor]
             ELSE [last |-> now, sleepFor |-> sleepFor, ret |-> now]

\* atomicLimiter.Take of a single caller, whose CompareAndSwapPointer succeeds
\* at the first attempt: newState, and newState.last as the return value
atomicTake(t, oldState, now) ==
    LET newState == [last |-> now, sleepFor |-> oldState.sleepFor]
    IN  IF oldState.last = ZeroTime
        THEN [last |-> newState.last, sleepFor |-> newState.sleepFor, ret |-> newState.last]
        ELSE LET added    == newState.sleepFor + t.perRequest - (now - oldState.last)
                 sleepFor == IF added < t.maxSlack THEN t.maxSlack ELSE added
                 last     == IF sleepFor > 0 THEN newState.last + sleepFor ELSE newState.last
             IN  [last |-> last,
                  sleepFor |-> IF sleepFor > 0 THEN 0 ELSE sleepFor,
                  ret |-> last]

\* an atomicInt64Limiter.Take that never caps the accumulated time
int64TakeUncapped(t, timeOfNextPermissionIssue, now) ==
    LET new == IF \/ timeOfNextPermissionIssue = 0
                  \/ (t.maxSlack = 0 /\ now - timeOfNextPermissionIssue > t.perRequest)
               THEN now
               ELSE timeOfNextPermissionIssue + t.perRequest
    IN  [state |-> new, ret |-> IF new - now > 0 THEN new ELSE now]

\* atomicInt64Limiter.Take of a single caller: the new state and the
\* timestamp returned
int64Take(t, timeOfNextPermissionIssue, now) ==
    LET new == IF \/ timeOfNextPermissionIssue = 0
                  \/ (t.maxSlack = 0 /\ now - timeOfNextPermissionIssue > t.perRequest)
               THEN now
               ELSE IF /\ t.maxSlack > 0
                       /\ now - timeOfNextPermissionIssue > t.maxSlack + t.perRequest
               THEN now - t.maxSlack
               ELSE timeOfNextPermissionIssue + t.perRequest
    IN  [state |-> new, ret |-> IF new - now > 0 THEN new ELSE now]

LimiterIdle ==
    /\ lmArgs = [rate |-> 0, per |-> 0, slack |-> 0]
    /\ lmClock = 0
    /\ mxSt = NoTake
    /\ atSt = NoTake
    /\ i64St = 0
    /\ mxTaken = <<>>
    /\ atTaken = <<>>
    /\ i64Taken = <<>>

InitLimiterRun ==
    /\ lmArgs \in LimiterArgs
    /\ lmClock = 1
    /\ mxSt = NoTake
    /\ atSt = NoTake
    /\ i64St = 0
    /\ mxTaken = <<>>
    /\ atTaken = <<>>
    /\ i64Taken = <<>>

\* the clock readings the next Take may see: not before the latest reading,
\* and not before the timestamp the previous Take slept until
NextReadings ==
    {now \in lmClock..MaxLimiterClock :
        mxTaken # <<>> => now >= mxTaken[Len(mxTaken)]}

\* the caller calls Take on each limiter; each reads now from the clock
Take(now) ==
    /\ Len(mxTaken) < MaxTakes
    /\ now \in NextReadings
    /\ LET m == mutexTake(newMutexBased(lmArgs), mxSt, now)
           a == atomicTake(newMutexBased(lmArgs), atSt, now)
           i == int64Take(newAtomicInt64Based(lmArgs), i64St, now)
       IN  /\ mxSt' = [last |-> m.last, sleepFor |-> m.sleepFor]
           /\ atSt' = [last |-> a.last, sleepFor |-> a.sleepFor]
           /\ i64St' = i.state
           /\ mxTaken' = Append(mxTaken, m.ret)
           /\ atTaken' = Append(atTaken, a.ret)
           /\ i64Taken' = Append(i64Taken, i.ret)
    /\ lmClock' = now
    /\ UNCHANGED lmArgs

NextLimiter ==
    \E now \in 1..MaxLimiterClock :
        Take(now) /\ UNCHANGED <<codecVars, snowVars, idVars, srvVars, platVars, fieldVars, jsonVars, stopVars, poolVars, wsVars, cacheVars, lockVars, retryVars, readVars>>

-----------------------------------------------------------------------------
(* runutil.Retry(interval, stopc, f): f is the caller's and returns nil or an
   error; the ticker fires on its own and keeps at most one tick in tick.C;
   stopc is closed by the caller at any moment. *)

MaxCalls == 4

MaxTicks == 3

\* what f returns
Errors == {"nil", "e1", "e2"}

RetryIdle ==
    /\ rtPc = "off"
    /\ rtErr = "none"
    /\ rtRet = "none"
    /\ rtCalls = 0
    /\ rtTicks = 0
    /\ tickC = 0
    /\ tickFired = 0
    /\ stopc = FALSE

\* tick := time.NewTicker(interval), in front of the first call of f
InitRetryRun ==
    /\ rtPc = "call"
    /\ rtErr = "none"
    /\ rtRet = "none"
    /\ rtCalls = 0
    /\ rtTicks = 0
    /\ tickC = 0
    /\ tickFired = 0
    /\ stopc \in BOOLEAN

\* err := f(); if err == nil { return nil }
RetryCall(err) ==
    /\ rtPc = "call"
    /\ rtCalls < MaxCalls
    /\ rtErr' = err
    /\ rtCalls' = rtCalls + 1
    /\ IF err = "nil"
       THEN rtRet' = "nil" /\ rtPc' = "done"
       ELSE rtPc' = "select" /\ UNCHANGED rtRet
    /\ UNCHANGED <<rtTicks, tickC, tickFired, stopc>>

\* case <-tick.C:
SelectTick ==
    /\ rtPc = "select"
    /\ tickC > 0
    /\ tickC' = tickC - 1
    /\ rtTicks' = rtTicks + 1
    /\ rtPc' = "call"
    /\ UNCHANGED <<rtErr, rtRet, rtCalls, tickFired, stopc>>

\* a select that returns nil when stopc is closed
SelectStopReturnsNil ==
    /\ rtPc = "select"
    /\ stopc
    /\ rtRet' = "nil"
    /\ rtPc' = "done"
    /\ UNCHANGED <<rtErr, rtCalls, rtTicks, tickC, tickFired, stopc>>

\* case <-stopc: return err
SelectStop ==
    /\ rtPc = "select"
    /\ stopc
    /\ rtRet' = rtErr
    /\ rtPc' = "done"
    /\ UNCHANGED <<rtErr, rtCalls, rtTicks, tickC, tickFired, stopc>>

\* the ticker fires: the tick is dropped when tick.C still holds one; no tick
\* after the deferred tick.Stop()
TickerFire ==
    /\ rtPc \in {"call", "select"}
    /\ tickFired < MaxTicks
    /\ tickFired' = tickFired + 1
    /\ tickC' = 1
    /\ UNCHANGED <<rtPc, rtErr, rtRet, rtCalls, rtTicks, stopc>>

\* the caller closes stopc
CloseStopc ==
    /\ rtPc # "off"
    /\ ~stopc
    /\ stopc' = TRUE
    /\ UNCHANGED <<rtPc, rtErr, rtRet, rtCalls, rtTicks, tickC, tickFired>>

NextRetry ==
    \/ \E err \in Errors : RetryCall(err) /\ UNCHANGED <<codecVars, snowVars, idVars, srvVars, platVars, fieldVars, jsonVars, stopVars, poolVars, wsVars, cacheVars, lockVars, limVars, readVars>>
    \/ SelectTick /\ UNCHANGED <<codecVars, snowVars, idVars, srvVars, platVars, fieldVars, jsonVars, stopVars, poolVars, wsVars, cacheVars, lockVars, limVars, readVars>>
    \/ SelectStop /\ UNCHANGED <<codecVars, snowVars, idVars, srvVars, platVars, fieldVars, jsonVars, stopVars, poolVars, wsVars, cacheVars, lockVars, limVars, readVars>>
    \/ TickerFire /\ UNCHANGED <<codecVars, snowVars, idVars, srvVars, platVars, fieldVars, jsonVars, stopVars, poolVars, wsVars, cacheVars, lockVars, limVars, readVars>>
    \/ CloseStopc /\ UNCHANGED <<codecVars, snowVars, idVars, srvVars, platVars, fieldVars, jsonVars, stopVars, poolVars, wsVars, cacheVars, lockVars, limVars, readVars>>

-----------------------------------------------------------------------------
(* Bucketed slice pool: pool.Pool *)

\* the pool of the package's test: New(1, 8, 2, makeFunc)
PoolMinSize == 1

PoolMaxSize == 8

PoolFactor == 2

\* for s := minSize; s <= maxSize; s = int(float64(s) * factor) { sizes = append(sizes, s) }
RECURSIVE SizesFrom(_, _, _)
SizesFrom(s, maxSize, factor) ==
    IF s <= maxSize THEN <<s>> \o SizesFrom(s * factor, maxSize, factor) ELSE <<>>

Requests == 1..MaxRequest

\* the bucket the loop of Get stops at: the first whose size sz is not below
\* (0: the loop runs out)
GetBucket(sizes, sz) ==
    IF \E i \in 1..Len(sizes) : ~(sz < sizes[i])
    THEN CHOOSE i \in 1..Len(sizes) :
            ~(sz < sizes[i]) /\ \A j \in 1..(i - 1) : sz < sizes[j]
    ELSE 0

\* the bucket the loop of Put stops at: the first whose size the capacity
\* does not exceed (0: the loop runs out and the slice is dropped)
PutBucket(sizes, c) ==
    IF \E i \in 1..Len(sizes) : ~(c > sizes[i])
    THEN CHOOSE i \in 1..Len(sizes) :
            ~(c > sizes[i]) /\ \A j \in 1..(i - 1) : c > sizes[j]
    ELSE 0

NoGet == [op |-> "none", sz |-> 0, cap |-> 0]

PoolIdle ==
    /\ poolSizes = <<>>
    /\ buckets = <<>>
    /\ poolRet = NoGet

\* New(minSize, maxSize, factor, makeFunc)
InitPoolRun ==
    /\ poolSizes = SizesFrom(PoolMinSize, PoolMaxSize, PoolFactor)
    /\ buckets = [i \in 1..Len(poolSizes) |-> {}]
    /\ poolRet = NoGet

\* p.Get(sz): sync.Pool.Get hands back one of the slices put into the bucket,
\* or nil and the slice is made with the bucket's size
PoolGet(sz) ==
    /\ poolSizes # <<>>
    /\ LET i == GetBucket(poolSizes, sz)
       IN  IF i = 0
           THEN /\ poolRet' = [op |-> "Get", sz |-> sz, cap |-> sz]
                /\ UNCHANGED buckets
           ELSE \/ /\ poolRet' = [op |-> "Get", sz |-> sz, cap |-> poolSizes[i]]
                   /\ UNCHANGED buckets
                \/ \E c \in buckets[i] :
                      /\ poolRet' = [op |-> "Get", sz |-> sz, cap |-> c]
                      /\ buckets' = [buckets EXCEPT ![i] = @ \ {c}]
    /\ UNCHANGED poolSizes

\* p.Put(s) of a slice of capacity c
PoolPut(c) ==
    /\ poolSizes # <<>>
    /\ LET i == PutBucket(poolSizes, c)
       IN  IF i = 0 THEN UNCHANGED buckets
           ELSE buckets' = [buckets EXCEPT ![i] = @ \cup {c}]
    /\ poolRet' = [op |-> "Put", sz |-> c, cap |-> c]
    /\ UNCHANGED poolSizes

NextPool ==
    \/ \E sz \in Requests :
          PoolGet(sz) /\ UNCHANGED <<codecVars, snowVars, idVars, srvVars, platVars, fieldVars, jsonVars, stopVars, cacheVars, wsVars, lockVars, limVars, retryVars, readVars>>
    \/ \E c \in Requests :
          PoolPut(c) /\ UNCHANGED <<codecVars, snowVars, idVars, srvVars, platVars, fieldVars, jsonVars, stopVars, cacheVars, wsVars, lockVars, limVars, retryVars, readVars>>

-----------------------------------------------------------------------------
(* Frame reader: nmqmessage.ReadWebsocket and nmqmessage.WriteWebsocket *)

OpContinuation == 0

OpClose == 8

OpPing == 9

OpPong == 10

\* the masking key of the peer's masked frames
PeerKey == <<55, 250, 33, 61>>

PeerFrame(fin, opcode, masked, bytes) ==
    [fin |-> fin, opcode |-> opcode, masked |-> masked, payload |-> bytes]

\* what the peer sends: fragments of text and binary messages, masked and
\* not, with 7-bit and 16-bit lengths, control frames and whole messages
PeerFrames ==
    { PeerFrame(FALSE, OpText, FALSE, <<7, 8, 9>>),
      PeerFrame(FALSE, OpBinary, TRUE, <<104, 105>>),
      PeerFrame(FALSE, OpContinuation, TRUE, <<1>>),
      PeerFrame(TRUE, OpContinuation, FALSE, Fill(126, 1)),
      PeerFrame(TRUE, OpContinuation, TRUE, <<>>),
      PeerFrame(TRUE, OpPing, TRUE, <<104, 105>>),
      PeerFrame(TRUE, OpPing, FALSE, Fill(126, 2)),
      PeerFrame(TRUE, OpPong, FALSE, <<5>>),
      PeerFrame(TRUE, OpText, TRUE, <<7>>),
      PeerFrame(TRUE, OpClose, FALSE, <<>>) }

\* the bytes of a frame on the wire (RFC 6455, 5.2)
PeerBytes(f) ==
    <<BitOr(IF f.fin THEN 128 ELSE 0, f.opcode)>>
        \o LengthField(Len(f.payload), IF f.masked THEN 128 ELSE 0)
        \o (IF f.masked THEN PeerKey ELSE <<>>)
        \o (IF f.masked
            THEN [i \in 1..Len(f.payload) |-> BitXor(f.payload[i], PeerKey[((i - 1) % 4) + 1])]
            ELSE f.payload)

RECURSIVE StreamOf(_)
StreamOf(frames) ==
    IF frames = <<>> THEN <<>> ELSE PeerBytes(Head(frames)) \o StreamOf(Tail(frames))

RECURSIVE FrameSeqs(_)
FrameSeqs(n) ==
    IF n = 0 THEN {<<>>}
    ELSE FrameSeqs(n - 1) \cup {Append(q, f) : q \in {r \in FrameSeqs(n - 1) : Len(r) = n - 1},
                                               f \in PeerFrames}

\* io.ReadFull(r, buf) with len(buf) = n on a stream the peer has finished:
\* the bytes and what is left, io.EOF when nothing is left, and
\* io.ErrUnexpectedEOF when fewer than n bytes are
ReadFull(in, n) ==
    IF Len(in) >= n
    THEN [err |-> "nil", bytes |-> SubSeq(in, 1, n), rest |-> SubSeq(in, n + 1, Len(in))]
    ELSE [err |-> IF in = <<>> THEN "EOF" ELSE "unexpected EOF", bytes |-> <<>>, rest |-> <<>>]

\* binary.BigEndian.Uint64 of a length below 2^31; -1 for a longer one that
\* make can be asked for (below 2^48), -2 for one that make panics on
SmallUint64(b) ==
    IF b[1] = 0 /\ b[2] = 0 /\ b[3] = 0 /\ b[4] = 0 /\ b[5] < 128
    THEN Int64ToInt(b)
    ELSE IF b[1] = 0 /\ b[2] = 0 THEN -1 ELSE -2

\* readExtendedLength(r, payloadLen)
readExtendedLength(in, payloadLen) ==
    IF payloadLen = 126
    THEN LET e == ReadFull(in, 2)
         IN  [err |-> e.err, n |-> IF e.err = "nil" THEN Uint16(e.bytes) ELSE 0, rest |-> e.rest]
    ELSE IF payloadLen = 127
    THEN LET e == ReadFull(in, 8)
         IN  [err |-> e.err, n |-> IF e.err = "nil" THEN SmallUint64(e.bytes) ELSE 0, rest |-> e.rest]
    ELSE [err |-> "nil", n |-> payloadLen, rest |-> in]

MaxMessageSize == 4194304

MaxStackSize == 4096

\* if expectedLength <= MaxStackSize { data = buf[:expectedLength] } else
\* { data = make([]byte, expectedLength) }: the bytes allocated for data
MakeData(expectedLength) ==
    IF expectedLength <= MaxStackSize THEN 0 ELSE expectedLength

\* made is the size of the buffer allocated for the payload: 0 when none was,
\* -1 when 2^31 bytes or more were asked for
NoFrame(e) ==
    [err |-> e, opcode |-> 0, isFinal |-> FALSE, data |-> <<>>, rest |-> <<>>, made |-> 0]

\* the payload of a frame: the mask key when the mask bit is set, the data,
\* and the data xor-ed with the key
ReadPayload(in, hasMask, expectedLength, opcode, isFinal) ==
    LET k == IF hasMask THEN ReadFull(in, 4) ELSE [err |-> "nil", bytes |-> <<>>, rest |-> in]
    IN  IF k.err # "nil" THEN NoFrame(k.err)
        ELSE LET d == ReadFull(k.rest, expectedLength)
             IN  IF d.err # "nil"
                 THEN [NoFrame(d.err) EXCEPT !.made = MakeData(expectedLength)]
                 ELSE [err     |-> "nil",
                       opcode  |-> opcode,
                       isFinal |-> isFinal,
                       data    |-> IF hasMask THEN Unmask(d.bytes, k.bytes) ELSE d.bytes,
                       rest    |-> d.rest,
                       made    |-> MakeData(expectedLength)]

\* one turn of the loop of ReadWebsocket up to the switch on the opcode: the
\* two header bytes, the extended length, the mask and the payload
ReadFrame(in) ==
    LET h0 == ReadFull(in, 1)
    IN  IF h0.err # "nil" THEN NoFrame(h0.err)
        ELSE LET h1 == ReadFull(h0.rest, 1)
             IN  IF h1.err # "nil" THEN NoFrame(h1.err)
                 ELSE LET x == readExtendedLength(h1.rest, h1.bytes[1] % 128)
                      IN  IF x.err # "nil" THEN NoFrame(x.err)
                          ELSE IF x.n = -2
                          THEN NoFrame("makeslice: len out of range")
                          \* a buffer of 2^31 bytes or more, which the peer's
                          \* bytes never fill
                          ELSE IF x.n = -1
                          THEN [ReadPayload(x.rest, h1.bytes[1] >= 128, 2147483647,
                                            h0.bytes[1] % 16, h0.bytes[1] >= 128)
                                   EXCEPT !.made = -1]
                          ELSE ReadPayload(x.rest, h1.bytes[1] >= 128, x.n,
                                           h0.bytes[1] % 16, h0.bytes[1] >= 128)

\* WriteWebsocket(conn, opcode, data): the header with FIN set, then the data
WriteHeader(opcode, data) ==
    <<BitOr(opcode, 128)>>
        \o (IF Len(data) < 126 THEN <<Len(data)>>
            ELSE IF Len(data) <= 65535 THEN <<126>> \o PutUint16(Len(data))
            ELSE <<127>> \o PutUint64(Len(data)))

\* what reaches the Writer: w tells which of the two Write calls fails
WriteWebsocket(out, opcode, data, w) ==
    IF w = "header fails" THEN out
    ELSE IF w = "data fails" THEN out \o WriteHeader(opcode, data)
    ELSE out \o WriteHeader(opcode, data) \o data

WriterOutcomes == {"ok", "header fails", "data fails"}

\* an aggregation that keeps only the frame at hand
AggregateLastOnly(total, opcode, data) == data

\* if opcode != OpContinuation { totalData = totalData[:0] }
\* totalData = append(totalData, data...)
Aggregate(total, opcode, data) ==
    IF opcode # OpContinuation THEN data ELSE total \o data

\* a switch without the case for OpPong
IsPongNever(opcode) == FALSE

\* case OpPong: continue
IsPong(opcode) == opcode = OpPong

WsIdle ==
    /\ wsFrames = <<>>
    /\ wsIn = <<>>
    /\ wsRead = 0
    /\ totalData = <<>>
    /\ wsCalls = <<>>
    /\ wsOut = <<>>
    /\ wsWrote = "none"
    /\ wsRet = "idle"

\* ReadWebsocket is called on a connection whose peer sends up to MaxFrames
\* frames and closes, the last frame whole or short of its last byte
InitWsRun ==
    /\ wsFrames \in FrameSeqs(MaxFrames)
    /\ \E cut \in {0, 1} :
          wsIn = SubSeq(StreamOf(wsFrames), 1, Len(StreamOf(wsFrames)) - cut)
    /\ wsRead = 0
    /\ totalData = <<>>
    /\ wsCalls = <<>>
    /\ wsOut = <<>>
    /\ wsWrote = "none"
    /\ wsRet = "none"

\* a read fails: return err
WsReadError ==
    /\ wsRet = "none"
    /\ ReadFrame(wsIn).err # "nil"
    /\ wsRet' = ReadFrame(wsIn).err
    /\ wsIn' = <<>>
    /\ UNCHANGED <<wsFrames, wsRead, totalData, wsCalls, wsOut, wsWrote>>

\* case OpPing: _ = WriteWebsocket(conn, OpPong, data); continue
WsPing(w) ==
    /\ wsRet = "none"
    /\ LET f == ReadFrame(wsIn)
       IN  /\ f.err = "nil"
           /\ f.opcode = OpPing
           /\ wsIn' = f.rest
           /\ wsOut' = WriteWebsocket(wsOut, OpPong, f.data, w)
    /\ wsWrote' = w
    /\ wsRead' = wsRead + 1
    /\ UNCHANGED <<wsFrames, totalData, wsCalls, wsRet>>

\* case OpPong: continue
WsPong ==
    /\ wsRet = "none"
    /\ LET f == ReadFrame(wsIn)
       IN  /\ f.err = "nil"
           /\ f.opcode # OpPing
           /\ IsPong(f.opcode)
           /\ wsIn' = f.rest
    /\ wsRead' = wsRead + 1
    /\ UNCHANGED <<wsFrames, totalData, wsCalls, wsOut, wsWrote, wsRet>>

\* any other frame: aggregate, and on the final frame call the handler;
\* after the handler of a close frame return an error
WsData ==
    /\ wsRet = "none"
    /\ LET f == ReadFrame(wsIn)
           t == Aggregate(totalData, f.opcode, f.data)
       IN  /\ f.err = "nil"
           /\ f.opcode # OpPing
           /\ ~IsPong(f.opcode)
           /\ wsIn' = f.rest
           /\ totalData' = t
           /\ wsCalls' = IF f.isFinal
                          THEN Append(wsCalls, [opcode |-> f.opcode, data |-> t])
                          ELSE wsCalls
           /\ wsRet' = IF f.isFinal /\ f.opcode = OpClose THEN "websocket closed" ELSE "none"
    /\ wsRead' = wsRead + 1
    /\ UNCHANGED <<wsFrames, wsOut, wsWrote>>

NextWs ==
    \/ WsReadError /\ UNCHANGED <<codecVars, snowVars, idVars, srvVars, platVars, fieldVars, jsonVars, stopVars, cacheVars, poolVars, lockVars, limVars, retryVars, readVars>>
    \/ \E w \in WriterOutcomes :
          WsPing(w) /\ UNCHANGED <<codecVars, snowVars, idVars, srvVars, platVars, fieldVars, jsonVars, stopVars, cacheVars, poolVars, lockVars, limVars, retryVars, readVars>>
    \/ WsPong /\ UNCHANGED <<codecVars, snowVars, idVars, srvVars, platVars, fieldVars, jsonVars, stopVars, cacheVars, poolVars, lockVars, limVars, retryVars, readVars>>
    \/ WsData /\ UNCHANGED <<codecVars, snowVars, idVars, srvVars, platVars, fieldVars, jsonVars, stopVars, cacheVars, poolVars, lockVars, limVars, retryVars, readVars>>

-----------------------------------------------------------------------------
(* ReadWebsocket on a frame whose header declares a long payload, of which
   the peer sends the first bytes only *)

\* first bytes: Text and Binary frames, final or not
HeaderByte0s == {129, 130, 1, 2}

\* declared lengths around MaxStackSize and MaxMessageSize, and beyond 2^31
DeclaredLengths ==
    {Word64(n) : n \in {4096, 4097, 65536, MaxMessageSize - 1, MaxMessageSize,
                        MaxMessageSize + 1, 2147483647}}
        \cup { <<0, 0, 0, 1, 0, 0, 0, 0>>,
               <<0, 1, 0, 0, 0, 0, 0, 0>>,
               <<128, 0, 0, 0, 0, 0, 0, 0>>,
               <<255, 255, 255, 255, 255, 255, 255, 255>> }

LongFrameHeads ==
    {<<b0, b1>> \o e \o t : b0 \in HeaderByte0s, b1 \in {127, 255},
                            e \in DeclaredLengths, t \in Tails \cup {<<>>}}

NoRead == [err |-> "none", made |-> 0]

ReadIdle ==
    /\ rdIn = <<>>
    /\ rdOut = NoRead
    /\ rdPc = "off"

InitReadRun ==
    /\ rdIn \in LongFrameHeads
    /\ rdOut = NoRead
    /\ rdPc = "ready"

\* ReadWebsocket(conn, handler) with conn.Reader delivering rdIn: the frame
\* cannot be completed, so the call returns at the first read that fails, or
\* panics in make
ReadLongFrame ==
    /\ rdPc = "ready"
    /\ LET f == ReadFrame(rdIn)
       IN  rdOut' = [err |-> f.err, made |-> f.made]
    /\ rdPc' = "done"
    /\ UNCHANGED rdIn

NextRead ==
    ReadLongFrame /\ UNCHANGED <<codecVars, snowVars, idVars, srvVars, platVars, fieldVars, jsonVars, stopVars, poolVars, wsVars, cacheVars, lockVars, limVars, retryVars>>

-----------------------------------------------------------------------------
(* Connection server: nmqmessage.MessageServer *)

Starts == 1..MaxStarts

Conns == 1..MaxConns

\* the state NewMessageServer leaves: no listener, no context, a nil map
ServerFresh ==
    /\ starts = 0
    /\ startErr = "none"
    /\ msListener = 0
    /\ msCtx = 0
    /\ cancelled = {}
    /\ lnState = [k \in Starts |-> "none"]
    /\ accPc = [k \in Starts |-> "none"]
    /\ accLn = [k \in Starts |-> 0]
    /\ connections = <<>>
    /\ cnState = [c \in Conns |-> "free"]
    /\ cnCloses = [c \in Conns |-> 0]
    /\ cnId = [c \in Conns |-> -1]
    /\ hPc = [c \in Conns |-> "none"]
    /\ panicked = FALSE

\* ms.connections[snowId] = conn
MapPut(m, id, c) == [x \in (DOMAIN m) \cup {id} |-> IF x = id THEN c ELSE m[x]]

\* the read of ms.connections under an identifier
NotFound == 0

Lookup(m, id) == IF id \in DOMAIN m THEN m[id] ELSE NotFound

\* n.Generate() run to its return by one caller: now0 is its first clock
\* reading, nowSpin the reading that ends the busy-wait of a wrapped sequence
Generate(now0, nowSpin, time, step, cfg) ==
    LET newStep == StepAfter(now0, time, step, cfg.stepMask)
        now     == IF MustSpin(now0, time, newStep) THEN nowSpin ELSE now0
    IN  [time |-> now, step |-> newStep, id |-> ComposeID(now, cfg, newStep)]

\* Start without the return on an init error: the accept goroutine is
\* launched whatever init returned
StartLaunchesAlways(out) ==
    /\ ~panicked
    /\ starts < MaxStarts
    /\ LET k == starts + 1
       IN  /\ starts' = k
           /\ msCtx' = k
           /\ connections' = <<>>
           /\ msListener' = IF out = "nosnow" THEN msListener
                            ELSE IF out = "listenerr" THEN 0
                            ELSE k
           /\ lnState' = IF out = "ok" THEN [lnState EXCEPT ![k] = "open"] ELSE lnState
           /\ accPc' = [accPc EXCEPT ![k] = "call"]
           /\ startErr' = IF out = "ok" THEN "nil" ELSE "error"
    /\ UNCHANGED <<cancelled, accLn, cnState, cnCloses, cnId, hPc, panicked, snowVars>>

\* Start(network, address): init, then the accept goroutine is launched.
\* out is what the collaborators do: "nosnow" (GetInterface has no
\* *SnowNode), "listenerr" (net.Listen fails) or "ok".
Start(out) ==
    /\ ~panicked
    /\ starts < MaxStarts
    /\ LET k == starts + 1
       IN  /\ starts' = k
           /\ msCtx' = k
           /\ connections' = <<>>
           /\ msListener' = IF out = "nosnow" THEN msListener
                            ELSE IF out = "listenerr" THEN 0
                            ELSE k
           /\ lnState' = IF out = "ok" THEN [lnState EXCEPT ![k] = "open"] ELSE lnState
           /\ accPc' = IF out = "ok" THEN [accPc EXCEPT ![k] = "call"] ELSE accPc
           /\ startErr' = IF out = "ok" THEN "nil" ELSE "error"
    /\ UNCHANGED <<cancelled, accLn, cnState, cnCloses, cnId, hPc, panicked, snowVars>>

\* a Close that closes every open connection of the server
CloseAllConns(c) ==
    /\ cnState' = [d \in Conns |-> IF cnState[d] = "open" THEN "closed" ELSE cnState[d]]
    /\ cnCloses' = [d \in Conns |-> IF cnState[d] = "open" \/ d = c
                                     THEN cnCloses[d] + 1 ELSE cnCloses[d]]

\* conn.Close()
CloseConn(c) ==
    /\ cnState' = [cnState EXCEPT ![c] = "closed"]
    /\ cnCloses' = [cnCloses EXCEPT ![c] = @ + 1]

\* the accept goroutine of Start k reads ms.listener and calls Accept on it;
\* the call on a nil listener panics
AcceptCall(k) ==
    /\ ~panicked
    /\ accPc[k] = "call"
    /\ IF msListener = 0
       THEN /\ panicked' = TRUE
            /\ UNCHANGED <<accPc, accLn>>
       ELSE /\ accLn' = [accLn EXCEPT ![k] = msListener]
            /\ accPc' = [accPc EXCEPT ![k] = "wait"]
            /\ panicked' = panicked
    /\ UNCHANGED <<starts, startErr, msListener, msCtx, cancelled, lnState,
                   connections, cnState, cnCloses, cnId, hPc, snowVars>>

\* Accept returns a timeout error: log and continue
AcceptTimeout(k) ==
    /\ ~panicked
    /\ accPc[k] = "wait"
    /\ lnState[accLn[k]] = "open"
    /\ accPc' = [accPc EXCEPT ![k] = "call"]
    /\ UNCHANGED <<starts, startErr, msListener, msCtx, cancelled, lnState, accLn,
                   connections, cnState, cnCloses, cnId, hPc, panicked,
                   snowVars>>

\* an accept loop that goes round on every error
AcceptErrorRetries(k) ==
    /\ ~panicked
    /\ accPc[k] = "wait"
    /\ accPc' = [accPc EXCEPT ![k] = "call"]
    /\ UNCHANGED <<starts, startErr, msListener, msCtx, cancelled, lnState, accLn,
                   connections, cnState, cnCloses, cnId, hPc, panicked,
                   snowVars>>

\* Accept returns another error (always so on a closed listener): return
AcceptError(k) ==
    /\ ~panicked
    /\ accPc[k] = "wait"
    /\ accPc' = [accPc EXCEPT ![k] = "exited"]
    /\ UNCHANGED <<starts, startErr, msListener, msCtx, cancelled, lnState, accLn,
                   connections, cnState, cnCloses, cnId, hPc, panicked,
                   snowVars>>

\* the connection the listener hands out next
NextConn == CHOOSE c \in Conns : cnState[c] = "free" /\ \A d \in Conns : d < c => cnState[d] # "free"

\* the clock readings of the Generate calls of the accept loop: connections
\* arrive in a burst, within the millisecond the clock shows, and the clock
\* moves on where a wrapped sequence makes Generate wait for the next
\* millisecond (the generator under freely advancing readings is SpecSnow)
AcceptReadings == {now \in Readings : now = clock}

SpinReadings(now0) == {now \in now0..MaxClock : now <= now0 + 1}

\* Accept returns a connection: mint its SnowID, register it, start its read loop
AcceptConn(k) ==
    /\ ~panicked
    /\ accPc[k] = "wait"
    /\ lnState[accLn[k]] = "open"
    /\ \E c \in Conns : cnState[c] = "free"
    /\ \E now0 \in AcceptReadings :
       \E nowSpin \in SpinReadings(now0) :
          LET c == NextConn
              g == Generate(now0, nowSpin, snTime, snStep, snCfg)
          IN  /\ IF MustSpin(now0, snTime, g.step)
                 THEN ~SpinAgain(nowSpin, snTime)
                 ELSE nowSpin = now0
              /\ clock' = g.time
              /\ snTime' = g.time
              /\ snStep' = g.step
              /\ connections' = MapPut(connections, g.id, c)
              /\ cnState' = [cnState EXCEPT ![c] = "open"]
              /\ cnId' = [cnId EXCEPT ![c] = g.id]
              /\ hPc' = [hPc EXCEPT ![c] = "deadline"]
    /\ accPc' = [accPc EXCEPT ![k] = "call"]
    /\ UNCHANGED <<starts, startErr, msListener, msCtx, cancelled, lnState, accLn,
                   cnCloses, panicked,
                   snNew, snCfg, snMu, gPc, gNow, lastId, lastBy, issued>>

\* handleConnection: conn.SetReadDeadline succeeds
DeadlineOk(c) ==
    /\ ~panicked
    /\ hPc[c] = "deadline"
    /\ hPc' = [hPc EXCEPT ![c] = "read"]
    /\ UNCHANGED <<starts, startErr, msListener, msCtx, cancelled, lnState, accPc, accLn,
                   connections, cnState, cnCloses, cnId, panicked, snowVars>>

\* handleConnection returns: the deferred conn.Close() runs
HandlerReturn(c) ==
    /\ CloseConn(c)
    /\ hPc' = [hPc EXCEPT ![c] = "done"]
    /\ UNCHANGED <<starts, startErr, msListener, msCtx, cancelled, lnState, accPc, accLn,
                   connections, cnId, panicked, snowVars>>

\* handleConnection: conn.SetReadDeadline fails: log and return
DeadlineErr(c) ==
    /\ ~panicked
    /\ hPc[c] = "deadline"
    /\ HandlerReturn(c)

\* handleConnection goes round its loop after a Read
ReadAgain(c) ==
    /\ ~panicked
    /\ hPc[c] = "read"
    /\ hPc' = [hPc EXCEPT ![c] = "deadline"]
    /\ UNCHANGED <<starts, startErr, msListener, msCtx, cancelled, lnState, accPc, accLn,
                   connections, cnState, cnCloses, cnId, panicked, snowVars>>

\* handleConnection: conn.Read returns a timeout error: continue
ReadTimeout(c) == ReadAgain(c)

\* handleConnection: conn.Read returns bytes, which are counted and dropped
ReadData(c) == ReadAgain(c)

\* handleConnection: conn.Read returns io.EOF: break
ReadEOF(c) ==
    /\ ~panicked
    /\ hPc[c] = "read"
    /\ HandlerReturn(c)

\* handleConnection: conn.Read returns another error: break
ReadErr(c) ==
    /\ ~panicked
    /\ hPc[c] = "read"
    /\ HandlerReturn(c)

\* Stop(): with a listener, return ms.listener.Close() (an error when the
\* listener is closed already)
StopListener ==
    /\ ~panicked
    /\ msListener # 0
    /\ lnState' = [lnState EXCEPT ![msListener] = "closed"]
    /\ UNCHANGED <<starts, startErr, msListener, msCtx, cancelled, accPc, accLn,
                   connections, cnState, cnCloses, cnId, hPc, panicked, snowVars>>

\* Stop(): without a listener, ms.msCancel() (a nil func before the first init)
StopCancel ==
    /\ ~panicked
    /\ msListener = 0
    /\ IF msCtx = 0
       THEN /\ panicked' = TRUE
            /\ cancelled' = cancelled
       ELSE /\ cancelled' = cancelled \cup {msCtx}
            /\ panicked' = panicked
    /\ UNCHANGED <<starts, startErr, msListener, msCtx, lnState, accPc, accLn,
                   connections, cnState, cnCloses, cnId, hPc, snowVars>>

Stop == StopListener \/ StopCancel

Next ==
    \/ \E out \in {"nosnow", "listenerr", "ok"} : Start(out) /\ UNCHANGED <<codecVars, idVars, restVars>>
    \/ \E k \in Starts : AcceptCall(k) /\ UNCHANGED <<codecVars, idVars, restVars>>
    \/ \E k \in Starts : AcceptTimeout(k) /\ UNCHANGED <<codecVars, idVars, restVars>>
    \/ \E k \in Starts : AcceptError(k) /\ UNCHANGED <<codecVars, idVars, restVars>>
    \/ \E k \in Starts : AcceptConn(k) /\ UNCHANGED <<codecVars, idVars, restVars>>
    \/ \E c \in Conns : DeadlineOk(c) /\ UNCHANGED <<codecVars, idVars, restVars>>
    \/ \E c \in Conns : DeadlineErr(c) /\ UNCHANGED <<codecVars, idVars, restVars>>
    \/ \E c \in Conns : ReadTimeout(c) /\ UNCHANGED <<codecVars, idVars, restVars>>
    \/ \E c \in Conns : ReadData(c) /\ UNCHANGED <<codecVars, idVars, restVars>>
    \/ \E c \in Conns : ReadEOF(c) /\ UNCHANGED <<codecVars, idVars, restVars>>
    \/ \E c \in Conns : ReadErr(c) /\ UNCHANGED <<codecVars, idVars, restVars>>
    \/ StopListener /\ UNCHANGED <<codecVars, idVars, restVars>>
    \/ StopCancel /\ UNCHANGED <<codecVars, idVars, restVars>>

\* the server with the Close calls of its listeners counted, in the runs
\* where no client connects
StopIdle == lnCloses = [k \in Starts |-> 0]

\* Stop() on a server whose listener field is set: ms.listener.Close()
StopListenerCounted ==
    /\ StopListener
    /\ lnCloses[msListener] < MaxCloses
    /\ lnCloses' = [lnCloses EXCEPT ![msListener] = @ + 1]

NextStop ==
    \/ \E out \in {"nosnow", "listenerr", "ok"} :
          Start(out) /\ UNCHANGED <<codecVars, idVars, platVars, fieldVars, jsonVars, stopVars, cacheVars, poolVars, wsVars, lockVars, limVars, retryVars, readVars>>
    \/ \E k \in Starts :
          AcceptCall(k) /\ UNCHANGED <<codecVars, idVars, platVars, fieldVars, jsonVars, stopVars, cacheVars, poolVars, wsVars, lockVars, limVars, retryVars, readVars>>
    \/ \E k \in Starts :
          AcceptTimeout(k) /\ UNCHANGED <<codecVars, idVars, platVars, fieldVars, jsonVars, stopVars, cacheVars, poolVars, wsVars, lockVars, limVars, retryVars, readVars>>
    \/ \E k \in Starts :
          AcceptError(k) /\ UNCHANGED <<codecVars, idVars, platVars, fieldVars, jsonVars, stopVars, cacheVars, poolVars, wsVars, lockVars, limVars, retryVars, readVars>>
    \/ StopListenerCounted /\ UNCHANGED <<codecVars, idVars, platVars, fieldVars, jsonVars, cacheVars, poolVars, wsVars, lockVars, limVars, retryVars, readVars>>
    \/ StopCancel /\ UNCHANGED <<codecVars, idVars, platVars, fieldVars, jsonVars, stopVars, cacheVars, poolVars, wsVars, lockVars, limVars, retryVars, readVars>>

-----------------------------------------------------------------------------
(* Specifications *)

Init ==
    CodecIdle /\ SnowState({ServerNew}) /\ MonotonicClock /\ IdIdle /\ ServerFresh
    /\ FieldsIdle
    /\ JsonIdle
    /\ StopIdle
    /\ CacheIdle
    /\ PoolIdle
    /\ WsIdle
    /\ LockIdle
    /\ LimiterIdle
    /\ RetryIdle
    /\ ReadIdle

InitCodec ==
    InitCodecRun /\ SnowState({ServerNew}) /\ MonotonicClock /\ IdIdle /\ ServerFresh
    /\ FieldsIdle
    /\ JsonIdle
    /\ StopIdle
    /\ CacheIdle
    /\ PoolIdle
    /\ WsIdle
    /\ LockIdle
    /\ LimiterIdle
    /\ RetryIdle
    /\ ReadIdle

InitSnow ==
    CodecIdle /\ SnowState(NewCalls) /\ MonotonicClock /\ IdIdle /\ ServerFresh
    /\ FieldsIdle
    /\ JsonIdle
    /\ StopIdle
    /\ CacheIdle
    /\ PoolIdle
    /\ WsIdle
    /\ LockIdle
    /\ LimiterIdle
    /\ RetryIdle
    /\ ReadIdle

InitWall ==
    CodecIdle /\ SnowState(NewCalls) /\ WallClock /\ IdIdle /\ ServerFresh
    /\ FieldsIdle
    /\ JsonIdle
    /\ StopIdle
    /\ CacheIdle
    /\ PoolIdle
    /\ WsIdle
    /\ LockIdle
    /\ LimiterIdle
    /\ RetryIdle
    /\ ReadIdle

InitIds ==
    CodecIdle /\ SnowState({ServerNew}) /\ MonotonicClock /\ InitIdRun /\ ServerFresh
    /\ FieldsIdle
    /\ JsonIdle
    /\ StopIdle
    /\ CacheIdle
    /\ PoolIdle
    /\ WsIdle
    /\ LockIdle
    /\ LimiterIdle
    /\ RetryIdle
    /\ ReadIdle

InitFields ==
    CodecIdle /\ SnowState({ServerNew}) /\ MonotonicClock /\ IdIdle /\ ServerFresh
    /\ InitFieldsRun
    /\ JsonIdle
    /\ StopIdle
    /\ CacheIdle
    /\ PoolIdle
    /\ WsIdle
    /\ LockIdle
    /\ LimiterIdle
    /\ RetryIdle
    /\ ReadIdle

InitJson ==
    CodecIdle /\ SnowState({ServerNew}) /\ MonotonicClock /\ IdIdle /\ ServerFresh
    /\ FieldsIdle
    /\ InitJsonRun
    /\ StopIdle
    /\ CacheIdle
    /\ PoolIdle
    /\ WsIdle
    /\ LockIdle
    /\ LimiterIdle
    /\ RetryIdle
    /\ ReadIdle

InitCache ==
    CodecIdle /\ SnowState({ServerNew}) /\ MonotonicClock /\ IdIdle /\ ServerFresh
    /\ FieldsIdle
    /\ JsonIdle
    /\ StopIdle
    /\ InitCacheRun
    /\ PoolIdle
    /\ WsIdle
    /\ LockIdle
    /\ LimiterIdle
    /\ RetryIdle
    /\ ReadIdle

InitPool ==
    CodecIdle /\ SnowState({ServerNew}) /\ MonotonicClock /\ IdIdle /\ ServerFresh
    /\ FieldsIdle
    /\ JsonIdle
    /\ StopIdle
    /\ CacheIdle
    /\ InitPoolRun
    /\ WsIdle
    /\ LockIdle
    /\ LimiterIdle
    /\ RetryIdle
    /\ ReadIdle

InitWs ==
    CodecIdle /\ SnowState({ServerNew}) /\ MonotonicClock /\ IdIdle /\ ServerFresh
    /\ FieldsIdle
    /\ JsonIdle
    /\ StopIdle
    /\ CacheIdle
    /\ PoolIdle
    /\ InitWsRun
    /\ LockIdle
    /\ LimiterIdle
    /\ RetryIdle
    /\ ReadIdle

InitRead ==
    CodecIdle /\ SnowState({ServerNew}) /\ MonotonicClock /\ IdIdle /\ ServerFresh
    /\ FieldsIdle
    /\ JsonIdle
    /\ StopIdle
    /\ CacheIdle
    /\ PoolIdle
    /\ WsIdle
    /\ LockIdle
    /\ LimiterIdle
    /\ RetryIdle
    /\ InitReadRun

InitRetry ==
    CodecIdle /\ SnowState({ServerNew}) /\ MonotonicClock /\ IdIdle /\ ServerFresh
    /\ FieldsIdle
    /\ JsonIdle
    /\ StopIdle
    /\ CacheIdle
    /\ PoolIdle
    /\ WsIdle
    /\ LockIdle
    /\ LimiterIdle
    /\ InitRetryRun
    /\ ReadIdle

InitLimiter ==
    CodecIdle /\ SnowState({ServerNew}) /\ MonotonicClock /\ IdIdle /\ ServerFresh
    /\ FieldsIdle
    /\ JsonIdle
    /\ StopIdle
    /\ CacheIdle
    /\ PoolIdle
    /\ WsIdle
    /\ LockIdle
    /\ InitLimiterRun
    /\ RetryIdle
    /\ ReadIdle

InitLock ==
    CodecIdle /\ SnowState({ServerNew}) /\ MonotonicClock /\ IdIdle /\ ServerFresh
    /\ FieldsIdle
    /\ JsonIdle
    /\ StopIdle
    /\ InitCacheRun
    /\ PoolIdle
    /\ WsIdle
    /\ InitLockRun
    /\ LimiterIdle
    /\ RetryIdle
    /\ ReadIdle

Spec == Init /\ [][Next]_vars

\* one step of the read loop of connection c
HandlerStep(c) ==
    /\ \/ DeadlineOk(c)
       \/ DeadlineErr(c)
       \/ ReadTimeout(c)
       \/ ReadData(c)
       \/ ReadEOF(c)
       \/ ReadErr(c)
    /\ UNCHANGED <<codecVars, idVars, restVars>>

\* one turn of the accept loop launched by Start k
AcceptStep(k) ==
    /\ \/ AcceptCall(k)
       \/ AcceptTimeout(k)
       \/ AcceptError(k)
       \/ AcceptConn(k)
    /\ UNCHANGED <<codecVars, idVars, restVars>>

\* the Go scheduler runs every runnable goroutine: each read loop and each
\* accept loop that can take a step eventually takes one
Fairness ==
    /\ \A c \in Conns : WF_vars(HandlerStep(c))
    /\ \A k \in Starts : WF_vars(AcceptStep(k))

SpecLive == Spec /\ Fairness

SpecCodec == InitCodec /\ [][NextCodec]_vars

SpecSnow == InitSnow /\ [][NextSnow]_vars

SpecWall == InitWall /\ [][NextSnow]_vars

SpecIds == InitIds /\ [][NextIds]_vars

SpecFields == InitFields /\ [][NextFields]_vars

SpecJson == InitJson /\ [][NextJson]_vars

SpecStop == Init /\ [][NextStop]_vars

SpecCache == InitCache /\ [][NextCache]_vars

SpecPool == InitPool /\ [][NextPool]_vars

SpecWs == InitWs /\ [][NextWs]_vars

SpecRead == InitRead /\ [][NextRead]_vars

SpecRetry == InitRetry /\ [][NextRetry]_vars

SpecLimiter == InitLimiter /\ [][NextLimiter]_vars

SpecLock == InitLock /\ [][NextLock]_vars

-----------------------------------------------------------------------------
(* Properties of the connection server (Spec, SpecLive) *)

\* C1: whichever way handleConnection exits, the connection's identifier is
\* no longer in the connections registry and the socket was closed exactly once.
C1_ExitUnregistersAndClosesOnce ==
    \A c \in Conns :
        hPc[c] = "done" => (cnId[c] \notin DOMAIN connections /\ cnCloses[c] = 1)

\* C2: every identifier in the connections map refers to a connection that is
\* still open.
C2_RegisteredAreOpen ==
    \A id \in DOMAIN connections : cnState[connections[id]] = "open"

\* C3: a call of Stop on a server with a bound listener leaves the listener
\* closed and the server's cancellation signal cancelled.
C3_StopClosesAndCancels ==
    [][StopListener => (lnState'[msListener] = "closed" /\ msCtx \in cancelled')]_vars

\* C4: after Stop on a started server every read loop eventually terminates
\* (a read loop is also gone when the process is).
C4_StopEndsReadLoops ==
    (msListener # 0 /\ lnState[msListener] = "closed")
        ~> (panicked \/ \A c \in Conns : hPc[c] \in {"none", "done"})

\* C10: a registered connection is found under its identifier, and once the
\* connection is torn down (the point of Unregister) its identifier is not
\* found any more.
C10_RegistryLifecycle ==
    [][ /\ \A k \in Starts :
              AcceptConn(k) => Lookup(connections', cnId'[NextConn]) = NextConn
        /\ \A c \in Conns :
              (hPc[c] # "done" /\ hPc'[c] = "done")
                  => Lookup(connections', cnId[c]) = NotFound ]_vars

\* C13: Start returns nil with the listener bound and its accept loop launched
\* and still running (it does not wait for the loop); when init fails it
\* returns the error and launches no accept loop.
C13_StartReturn ==
    [][\A out \in {"nosnow", "listenerr", "ok"} :
          Start(out) =>
              LET k == starts'
              IN  IF out = "ok"
                  THEN /\ startErr' = "nil"
                       /\ msListener' = k
                       /\ lnState'[k] = "open"
                       /\ accPc'[k] = "call"
                  ELSE /\ startErr' = "error"
                       /\ accPc' = accPc]_vars

C13_Witness ==
    /\ starts = 2
    /\ startErr = "nil"
    /\ msListener = 2
    /\ accPc[2] = "call"
    /\ accPc[1] = "none"

\* C14: after a timeout the accept loop calls Accept again; after any other
\* error it exits for good and accepts or registers no further connection,
\* while the registered connections and their read loops are left as they are.
C14_AcceptErrors ==
    [][\A k \in Starts :
          /\ AcceptTimeout(k) => accPc'[k] = "call"
          /\ AcceptError(k) =>
                 /\ accPc'[k] = "exited"
                 /\ connections' = connections
                 /\ cnState' = cnState
                 /\ hPc' = hPc
          /\ accPc[k] = "exited" => accPc'[k] = "exited"
          /\ (\A j \in Starts : accPc[j] \in {"none", "exited"})
                 => /\ \A c \in Conns : cnState[c] = "free" => cnState'[c] = "free"
                    /\ DOMAIN connections' \subseteq DOMAIN connections]_vars

C14_Witness ==
    /\ accPc[1] = "exited"
    /\ accPc[2] = "none"
    /\ lnState[1] = "open"
    /\ hPc[1] = "read"
    /\ cnState[1] = "open"
    /\ cnState[2] = "free"
    /\ cnId[1] \in DOMAIN connections

\* C15: an accepted connection gets an identifier no connection had before,
\* the registry holds no entry under it yet (nothing is overwritten), and the
\* connection is registered under it when its read loop is started.
C15_FreshIdentifier ==
    [][\A k \in Starts :
          AcceptConn(k) =>
              LET c == NextConn
              IN  /\ cnId'[c] \notin DOMAIN connections
                  /\ \A d \in Conns \ {c} : cnId[d] # cnId'[c]
                  /\ Lookup(connections', cnId'[c]) = c
                  /\ hPc[c] = "none"
                  /\ hPc'[c] = "deadline"]_vars

C15_Witness ==
    /\ Cardinality(DOMAIN connections) = 2
    /\ cnId[1] # cnId[2]
    /\ snTime = 1
    /\ hPc[1] # "none"
    /\ hPc[2] = "deadline"

\* C16: when the read loop of one connection ends on a SetReadDeadline error,
\* EOF or a read error, every other connection keeps its state and its
\* registry entry, and the accept loops and listeners are untouched.
C16_ErrorsAreLocal ==
    [][\A c \in Conns :
          (DeadlineErr(c) \/ ReadEOF(c) \/ ReadErr(c)) =>
              /\ \A d \in Conns \ {c} :
                    /\ cnState'[d] = cnState[d]
                    /\ cnCloses'[d] = cnCloses[d]
                    /\ hPc'[d] = hPc[d]
                    /\ Lookup(connections', cnId[d]) = Lookup(connections, cnId[d])
              /\ accPc' = accPc
              /\ lnState' = lnState
              /\ msListener' = msListener
              /\ panicked' = panicked]_vars

C16_Witness ==
    /\ hPc[1] = "done"
    /\ cnState[1] = "closed"
    /\ hPc[2] = "read"
    /\ cnState[2] = "open"
    /\ cnCloses[2] = 0
    /\ accPc[1] = "wait"
    /\ Lookup(connections, cnId[2]) = 2

\* C27: whatever Start and Stop calls are made, a Stop leaves no listener with
\* more than one Close call and no listener the server bound still open.
C27_ListenersClosedOnce ==
    [][(StopListenerCounted \/ StopCancel)
          => \A k \in Starts : lnCloses'[k] <= 1 /\ lnState'[k] # "open"]_vars

\* C34: Stop on a server without a bound listener (never started, or whose
\* Start failed before binding one) does not panic.
C34_StopWithoutListener ==
    [][StopCancel => ~panicked']_vars

\* C35: a Start that fails (no generator, or Listen fails) leaves the
\* connections registry, the cancellation context and the listener field as
\* they were before the call.
C35_FailedStartKeepsState ==
    [][\A out \in {"nosnow", "listenerr"} :
          Start(out) => /\ connections' = connections
                        /\ msCtx' = msCtx
                        /\ msListener' = msListener]_vars

-----------------------------------------------------------------------------
(* Properties of the frame codec (SpecCodec) *)

\* C5: decoding what the binary encoder produced from payload p succeeds and
\* returns p.
C5_RoundTrip ==
    (cpc = "done" /\ src = "encoder") => (parsed.kind = "ok" /\ parsed.data = payload)

C5_Witness ==
    /\ cpc = "done"
    /\ src = "encoder"
    /\ Len(payload) = 126
    /\ frame[2] = 126
    /\ parsed.kind = "ok"
    /\ parsed.data = payload

\* C6: ParseNmqFrame returns a message or an error for every buffer; it
\* never panics.
C6_ParseNeverPanics ==
    cpc = "done" => parsed.kind \in {"ok", "error"}

\* the declared payload length of a buffer exceeds the n bytes that remain,
\* the 64-bit extended length read as unsigned
DeclaredExceeds(buf, len7, n) ==
    IF len7 = 126 THEN Uint16(SubSeq(buf, 3, 4)) > n
    ELSE IF len7 = 127
    THEN (\E i \in 3..6 : buf[i] # 0) \/ buf[7] >= 128
         \/ Int64ToInt(SubSeq(buf, 3, 10)) > n
    ELSE len7 > n

\* a truncated buffer: too short for the header, the extended length, the
\* mask key or the declared payload
Truncated(buf) ==
    \/ Len(buf) < 2
    \/ /\ Len(buf) >= 2
       /\ LET len7  == buf[2] % 128
              mask  == buf[2] >= 128
              ext   == IF len7 = 126 THEN 2 ELSE IF len7 = 127 THEN 8 ELSE 0
              start == 2 + ext + (IF mask THEN 4 ELSE 0)
          IN  \/ Len(buf) < 2 + ext
              \/ Len(buf) < start
              \/ DeclaredExceeds(buf, len7, Len(buf) - start)

\* C7: every truncated buffer makes ParseNmqFrame return an error and no
\* message.
C7_TruncatedRejected ==
    (cpc = "done" /\ Truncated(frame)) => (parsed.kind = "error" /\ parsed.data = <<>>)

\* the big-endian value of the bytes b[lo..hi], for values below 2^31
BigEndianValue(b, lo, hi) ==
    LET RECURSIVE val(_, _)
        val(i, acc) == IF i > hi THEN acc ELSE val(i + 1, acc * 256 + b[i])
    IN  val(lo, 0)

\* C11: ToNmqBinaryFrame returns no error and a frame that is byte 0x82, a
\* length field with the mask bit clear (the length itself below 126, else 126
\* and the length in 2 bytes up to 0xFFFF, else 127 and the length in 8 bytes,
\* both big-endian) and then the payload unchanged.
C11_EncodedLayout ==
    src = "encoder" =>
        LET n   == Len(payload)
            ext == IF n < 126 THEN 0 ELSE IF n <= 65535 THEN 2 ELSE 8
        IN  /\ ToNmqBinaryFrame(payload).err = "nil"
            /\ Len(frame) = 2 + ext + n
            /\ frame[1] = 130
            /\ frame[2] = (IF ext = 0 THEN n ELSE IF ext = 2 THEN 126 ELSE 127)
            /\ ext = 2 => BigEndianValue(frame, 3, 4) = n
            /\ ext = 8 => /\ \A i \in 3..6 : frame[i] = 0
                          /\ BigEndianValue(frame, 7, 10) = n
            /\ SubSeq(frame, 3 + ext, Len(frame)) = payload

C11_Witness ==
    /\ src = "encoder"
    /\ Len(payload) = 65536
    /\ SubSeq(frame, 1, 10) = <<130, 127, 0, 0, 0, 0, 0, 1, 0, 0>>

\* C12: a buffer of at least 2 bytes whose opcode is neither Text nor Binary
\* makes ParseNmqFrame return the unsupported-opcode error and no message,
\* never a panic, whatever the other bytes are.
C12_OtherOpcodesRejected ==
    (cpc = "done" /\ Len(frame) >= 2 /\ frame[1] % 16 \notin {1, 2})
        => (parsed.kind = "error" /\ parsed.err = "unsupported opcode"
            /\ parsed.data = <<>>)

C12_Witness ==
    /\ cpc = "done"
    /\ Len(frame) >= 10
    /\ frame[1] = 137
    /\ frame[2] = 127
    /\ frame[3] = 255
    /\ parsed.kind = "error"
    /\ parsed.err = "unsupported opcode"

\* C20: for a buffer with the mask bit set that ParseNmqFrame decodes, byte i
\* of the returned payload is byte i of the payload on the wire xor-ed with
\* byte i mod 4 of the mask key, and the same xor applied to the returned
\* payload gives the wire bytes back.
C20_MaskXor ==
    [][(Parse /\ parsed'.kind = "ok" /\ frame[2] >= 128) =>
          LET len7  == frame[2] % 128
              keyAt == IF len7 = 126 THEN 4 ELSE IF len7 = 127 THEN 10 ELSE 2
              key   == [j \in 0..3 |-> frame[keyAt + 1 + j]]
              wire  == [i \in 0..(Len(parsed'.data) - 1) |-> frame[keyAt + 5 + i]]
          IN  \A i \in 0..(Len(parsed'.data) - 1) :
                 /\ parsed'.data[i + 1] = BitXor(wire[i], key[i % 4])
                 /\ BitXor(parsed'.data[i + 1], key[i % 4]) = wire[i]]_vars

C20_Witness ==
    /\ cpc = "done"
    /\ src = "wire"
    /\ frame[2] = 135
    /\ parsed.kind = "ok"
    /\ Len(parsed.data) = 7
    /\ parsed.data[6] # parsed.data[2]

\* C37: ParseNmqFrame leaves the caller's buffer as it was, so that decoding
\* the buffer a second time returns the payload of the first decoding, also
\* for a masked frame.
C37_ParseKeepsBuffer ==
    [][Parse => /\ frame' = frame
                /\ ParseNmqFrame(frame').data = parsed'.data]_vars

-----------------------------------------------------------------------------
(* Properties of the identifier generator (SpecSnow) *)

\* the int64 word w is a node number in 0 .. 2^NodeBits - 1
InNodeRange(w) ==
    /\ \A i \in 1..6 : w[i] = 0
    /\ w[7] * 256 + w[8] <= 2^NodeBits - 1

\* C17: NewSnowNode(node) returns an error and no generator exactly when node
\* is below 0 or above 2^NodeBits - 1; for a node in the range it returns a
\* generator of that node with sequence 0.
C17_NewSnowNodeRange ==
    [][CallNewSnowNode =>
          IF InNodeRange(snNew.node)
          THEN /\ snCfg'.err = "nil"
               /\ snCfg'.node = snNew.node[7] * 256 + snNew.node[8]
               /\ snStep' = 0
          ELSE /\ snCfg'.err \notin {"nil", "none"}
               /\ DOMAIN snCfg' = {"err"}]_vars

C17_Witness ==
    /\ snNew.by = "caller"
    /\ snNew.pc = "done"
    /\ snNew.node = Word64(-1)
    /\ snCfg.err \notin {"nil", "none"}

\* C18: the node number NetComponent.Init hands to NewSnowNode, the FNV hash
\* of the component's name as an int64, lies in 0 .. 2^NodeBits - 1, and the
\* construction of the generator succeeds.
C18_ComponentNodeInRange ==
    (snNew.by = "component" /\ snNew.pc # "hash")
        => /\ InNodeRange(snNew.node)
           /\ snNew.pc = "done" => snCfg.err = "nil"

\* C8: with a clock that never goes back, every identifier Generate returns
\* is greater than all identifiers returned before it.
C8_StrictlyIncreasing ==
    [][\A p \in Callers : GenStore(p) => \A i \in issued : lastId' > i]_vars

C8_Witness ==
    /\ snCfg.err = "nil"
    /\ Cardinality(issued) > snCfg.stepMask + 1
    /\ snTime > 1
    /\ snStep = 0
    /\ lastId = ComposeID(snTime, snCfg, 0)

\* C9: concurrent callers of Generate never receive the same identifier.
C9_NoDuplicates ==
    [][\A p \in Callers : GenStore(p) => lastId' \notin issued]_vars

C9_Witness ==
    /\ Cardinality(issued) >= 2
    /\ lastBy = 2
    /\ snMu = 1
    /\ gPc[1] = "store"
    /\ gPc[2] = "idle"

\* C21: Generate has no check for a clock that went back: when the reading is
\* below n.time the call neither waits nor fails, it sets the sequence to 0,
\* stores the lower reading in n.time and returns the identifier composed
\* from it.
C21_NoRegressionCheck ==
    [][\A p \in Callers :
          /\ (GenBranch(p) /\ gNow[p] < snTime)
                => (snStep' = 0 /\ gPc'[p] = "store")
          /\ (GenStore(p) /\ gNow[p] < snTime)
                => /\ snTime' = gNow[p]
                   /\ lastId' = ComposeID(gNow[p], snCfg, 0)
                   /\ gPc'[p] = "idle"]_vars

\* an identifier was returned that is smaller than one returned before it
C21_Witness ==
    /\ ~monotonic
    /\ snCfg.err = "nil"
    /\ lastId = ComposeID(1, snCfg, 0)
    /\ snTime = 1
    /\ \E i \in issued : lastId < i

\* the timestamp field of an identifier of generator cfg
TimestampOf(id, cfg) == id \div Shl(1, cfg.timeShift)

\* the identifiers returned so far that carry timestamp t
IssuedAt(t) == {i \in issued : TimestampOf(i, snCfg) = t}

\* C22: with a clock that never goes back, the call that finds the sequence
\* used up within its millisecond wraps it to 0 and waits in the loop until
\* the clock reads a later millisecond; at most 2^StepBits identifiers carry
\* one timestamp, and the identifier returned after the wrap has a greater
\* timestamp and sequence 0.
C22_WrapWaits ==
    [][\A p \in Callers :
          /\ (GenBranch(p) /\ gNow[p] = snTime /\ snStep = snCfg.stepMask)
                => (snStep' = 0 /\ gPc'[p] = "spin")
          /\ (GenSpin(p) /\ gPc'[p] = "store")
                => (gNow[p] > snTime /\ snStep = 0)
          /\ GenStore(p)
                => \A t \in 0..MaxClock :
                      Cardinality({i \in issued' : TimestampOf(i, snCfg) = t})
                          <= snCfg.stepMask + 1]_vars

C22_Witness ==
    /\ snCfg.err = "nil"
    /\ Cardinality(IssuedAt(1)) = snCfg.stepMask + 1
    /\ TimestampOf(lastId, snCfg) = 2
    /\ lastId = ComposeID(2, snCfg, 0)
    /\ \A p \in Callers : gPc[p] = "idle"

C28_MalformedIsSyntaxError ==
    (jsPc = "done" /\ NotQuoted(jsIn))
        => (jsErr = "JSONSyntaxError" /\ jsF = jsF0)

-----------------------------------------------------------------------------
(* Properties of the local cache (SpecCache) *)

\* C23: Add stores its value only when the key is absent or expired; on a key
\* holding an unexpired entry it returns CacheExist and leaves the entry as
\* it was.
C23_AddKeepsExisting ==
    [][\A p \in CacheCallers, k \in CacheKeys, x \in CacheVals, d \in Durations :
          CacheAdd(p, k, x, d)
              => IF k \in DOMAIN member /\ ~Expired(member[k], cacheNow)
                 THEN /\ cacheRet'[p].err = "CacheExist"
                      /\ k \in DOMAIN member'
                      /\ member'[k] = member[k]
                 ELSE /\ cacheRet'[p].err = "nil"
                      /\ member'[k] = NewIterator(x, d, cacheNow)]_vars

\* C25: Get returns the entry the latest Set stored under the key as long as
\* the clock has not passed its expiry time, always for an entry without
\* expiry; on an expired entry it returns not found and removes the entry.
C25_GetUntilExpiry ==
    [][\A p \in CacheCallers, k \in CacheKeys :
          /\ (GetLookup(p, k) /\ stored[k] # NoEntry /\ ~Expired(stored[k], cacheNow))
                => cacheRet'[p] = [op |-> "Get", key |-> k, val |-> stored[k].Val,
                                   ok |-> TRUE, err |-> "nil"]
          /\ (GetLookup(p, k) /\ k \in DOMAIN member /\ Expired(member[k], cacheNow))
                => gtPc'[p] = "delete"
          /\ (GetDelete(p) /\ gtKey[p] = k)
                => (~cacheRet'[p].ok /\ k \notin DOMAIN member')]_vars

\* C38: the Delete that ends a Get on an expired entry never removes an
\* unexpired entry that a concurrent Set stored under the key after the
\* expiry check.
C38_GetKeepsFreshValue ==
    [][\A p \in CacheCallers :
          GetDelete(p) => ~(/\ gtKey[p] \in DOMAIN member
                            /\ ~Expired(member[gtKey[p]], cacheNow))]_vars

-----------------------------------------------------------------------------
(* Properties of the cache lock (SpecLock) *)

\* C39: no goroutine is inside the capture callback while it holds the cache
\* lock, whichever operation removed the entry.
C39_CaptureOutsideLock ==
    \A p \in CacheCallers : gtPc[p] = "capture" => cacheMu # p

-----------------------------------------------------------------------------
(* Properties of the rate limiters (SpecLimiter) *)

\* the permits from the i-th to the j-th are no closer together than the
\* steady rate allows, less slack permits
Spaced(taken, i, j) ==
    taken[j] - taken[i] >= ((j - i) - lmArgs.slack) * newMutexBased(lmArgs).perRequest

\* C31: the timestamps mutexLimiter.Take and atomicLimiter.Take return
\* satisfy t[i+k] - t[i] >= (k - slack) * perRequest, and after every call
\* sleepFor lies in [-slack * perRequest, 0].
C31_BurstBounded ==
    /\ \A i \in 1..Len(mxTaken), j \in 1..Len(mxTaken) :
          i <= j => Spaced(mxTaken, i, j) /\ Spaced(atTaken, i, j)
    /\ mxSt.sleepFor \in newMutexBased(lmArgs).maxSlack..0
    /\ atSt.sleepFor \in newMutexBased(lmArgs).maxSlack..0

\* after an idle stretch the limiter issued slack permits at once and then
\* made the caller sleep: the bound is met with equality
C31_Witness ==
    /\ lmArgs.slack = 2
    /\ mxTaken # <<>>
    /\ mxTaken[Len(mxTaken)] > lmClock
    /\ \E i \in 1..Len(mxTaken), j \in 1..Len(mxTaken) :
          /\ j - i > lmArgs.slack
          /\ mxTaken[i + 1] = mxTaken[i + 2]
          /\ mxTaken[j] - mxTaken[i]
                = ((j - i) - lmArgs.slack) * newMutexBased(lmArgs).perRequest

\* C32: for one sequential caller and the same clock readings, rate and
\* slack, atomicInt64Limiter.Take returns the timestamps atomicLimiter.Take
\* and mutexLimiter.Take return.
C32_LimitersAgree ==
    /\ i64Taken = atTaken
    /\ atTaken = mxTaken

\* a run in which the limiters have issued a burst after an idle stretch and
\* have made the caller sleep
C32_Witness ==
    /\ lmArgs.slack > 0
    /\ Len(i64Taken) = MaxTakes
    /\ i64Taken = mxTaken
    /\ \E i \in 2..(MaxTakes - 1) :
          /\ i64Taken[i] - i64Taken[i - 1] > 3 * newMutexBased(lmArgs).perRequest
          /\ i64Taken[i + 1] = i64Taken[i]
    /\ i64Taken[MaxTakes] > lmClock

-----------------------------------------------------------------------------
(* Properties of Retry (SpecRetry) *)

\* C33: Retry calls f once and then once for every tick it receives; it
\* returns nil at the first call of f that returns nil; it returns an error
\* only once stopc is closed, and then the error of the latest call of f.
C33_Retry ==
    /\ rtCalls + (IF rtPc = "call" THEN 1 ELSE 0) = 1 + rtTicks
    /\ (rtCalls >= 1 /\ rtErr = "nil") => (rtPc = "done" /\ rtRet = "nil")
    /\ rtPc = "done" => /\ rtCalls >= 1
                        /\ rtRet = rtErr
                        /\ rtRet # "nil" => stopc

\* f failed three times, two of the calls after a tick, with different
\* errors, and Retry returned the latest one after stopc was closed
C33_Witness ==
    /\ rtPc = "done"
    /\ rtCalls = 3
    /\ rtTicks = 2
    /\ rtRet = "e2"
    /\ stopc

-----------------------------------------------------------------------------
(* Properties of the slice pool (SpecPool) *)

\* C24: Get(sz) returns a slice whose capacity is the smallest bucket size
\* that is at least sz, or sz itself above the largest bucket; the capacity
\* is never below sz.
C24_GetFits ==
    [][\A sz \in Requests :
          PoolGet(sz)
              => /\ poolRet'.cap >= sz
                 /\ IF \E i \in 1..Len(poolSizes) : poolSizes[i] >= sz
                    THEN /\ poolRet'.cap \in {poolSizes[i] : i \in 1..Len(poolSizes)}
                         /\ \A i \in 1..Len(poolSizes) :
                               poolSizes[i] >= sz => poolRet'.cap <= poolSizes[i]
                    ELSE poolRet'.cap = sz]_vars

-----------------------------------------------------------------------------
(* Properties of the frame reader (SpecWs) *)

\* the header WriteWebsocket gives a Pong frame of n payload bytes, n <= 65535
PongHeader(n) ==
    IF n < 126 THEN <<138, n>> ELSE <<138, 126, n \div 256, n % 256>>

\* C29: reading a Ping frame writes one Pong frame with the Ping's payload
\* (when the Writer takes it) and reading a Pong frame writes nothing; neither
\* calls the handler nor touches the fragments aggregated so far.
C29_PingPong ==
    [][wsRead' = wsRead + 1 =>
          LET f == wsFrames[wsRead + 1]
          IN  /\ f.opcode = OpPing
                    => /\ totalData' = totalData
                       /\ wsCalls' = wsCalls
                       /\ wsWrote' = "ok"
                             => wsOut' = wsOut \o PongHeader(Len(f.payload)) \o f.payload
              /\ f.opcode = OpPong
                    => /\ totalData' = totalData
                       /\ wsCalls' = wsCalls
                       /\ wsOut' = wsOut]_vars

\* a masked Ping was answered while a text message was half read
C29_Witness ==
    /\ wsRead = 2
    /\ wsFrames[1] = PeerFrame(FALSE, OpText, FALSE, <<7, 8, 9>>)
    /\ wsFrames[2] = PeerFrame(TRUE, OpPing, TRUE, <<104, 105>>)
    /\ totalData = <<7, 8, 9>>
    /\ wsCalls = <<>>
    /\ wsWrote = "ok"
    /\ wsOut = <<138, 2, 104, 105>>

IsControl(f) == f.opcode \in {OpPing, OpPong}

\* frames j..i, all but frame i: a non-final Text or Binary frame followed
\* by non-final Continuation frames, Ping and Pong frames in between
OpenMessage(j, i) ==
    /\ wsFrames[j].opcode \in {OpText, OpBinary}
    /\ ~wsFrames[j].fin
    /\ \A k \in (j + 1)..(i - 1) :
          \/ IsControl(wsFrames[k])
          \/ wsFrames[k].opcode = OpContinuation /\ ~wsFrames[k].fin

\* the payloads of the fragments among frames j..i, in order
RECURSIVE Fragments(_, _)
Fragments(j, i) ==
    IF j > i THEN <<>>
    ELSE (IF IsControl(wsFrames[j]) THEN <<>> ELSE wsFrames[j].payload) \o Fragments(j + 1, i)

\* C30: the handler is called once for a fragmented message, when the frame
\* with FIN is read, with the payloads of the fragments in order.
C30_FragmentsAggregated ==
    [][wsRead' = wsRead + 1 =>
          LET i == wsRead + 1
          IN  \A j \in 1..i :
                 /\ (j < i /\ OpenMessage(j, i) /\ wsFrames[i].opcode = OpContinuation
                        /\ wsFrames[i].fin)
                       => \E op \in 0..15 :
                             wsCalls' = Append(wsCalls, [opcode |-> op, data |-> Fragments(j, i)])
                 /\ (OpenMessage(j, i + 1)
                        /\ (j < i => wsFrames[i].opcode = OpContinuation /\ ~wsFrames[i].fin))
                       => wsCalls' = wsCalls]_vars

\* a binary message of three fragments, masked and not, was handed over
C30_Witness ==
    /\ wsRead = 3
    /\ wsFrames[1] = PeerFrame(FALSE, OpBinary, TRUE, <<104, 105>>)
    /\ wsFrames[2] = PeerFrame(FALSE, OpContinuation, TRUE, <<1>>)
    /\ wsFrames[3] = PeerFrame(TRUE, OpContinuation, FALSE, Fill(126, 1))
    /\ wsCalls = <<[opcode |-> OpContinuation, data |-> <<104, 105, 1>> \o Fill(126, 1)]>>

-----------------------------------------------------------------------------
(* Properties of the frame reader on long frames (SpecRead) *)

\* C36: ReadWebsocket allocates no payload buffer larger than MaxMessageSize
\* and does not panic: on a frame that declares more it returns an error
\* before it allocates.
C36_PayloadBounded ==
    rdPc = "done" => /\ rdOut.made \in 0..MaxMessageSize
                     /\ rdOut.err # "makeslice: len out of range"

-----------------------------------------------------------------------------
(* Properties of the identifier encodings (SpecIds) *)

\* C19: for an identifier from 0 to 2^63 - 1, parsing what String, Base32,
\* Base36, Base58, Base64 or IntBytes returned for it gives no error and the
\* identifier back.
C19_EncodingsRoundTrip ==
    idOut # NoId => (idOut.err = "nil" /\ idOut.id = idIn)

C19_Witness ==
    /\ idIn = <<29, 98, 12, 104, 47, 255, 255, 255>>
    /\ idKind = "Base58"
    /\ Len(idText) = 11
    /\ idOut.err = "nil"
    /\ idOut.id = idIn

=============================================================================
